---- MODULE Spec2Model ----
(***************************************************************************)
(* A model of mailsac/smtpd: the Conn object of conn.go (envelope          *)
(* transaction, reset operations, the LimitedReader that caps the bytes    *)
(* read from the socket), the SMTP command loop that drives it, the        *)
(* Message of message.go with its MIME selectors, and the counter of       *)
(* messageids.go.                                                          *)
(*                                                                         *)
(* conn.go holds two revisions of the file one after the other; the model  *)
(* follows the second one (lines 210-462), the one with Conn.limitedReader *)
(* and Conn.DiscardBody.                                                   *)
(*                                                                         *)
(* Specifications:                                                         *)
(*   SpecConn  the exported methods of Conn called in any order;           *)
(*   Spec      one SMTP session on a server without an auth registry: a    *)
(*             client, the socket, the bufio reader over the               *)
(*             LimitedReader, and the command loop;                        *)
(*   SpecGate  the same on a server with an auth registry;                 *)
(*   SpecTLS   the same on a server with an auth registry and a TLS        *)
(*             configuration;                                              *)
(*   SpecEHLO  sessions without mail, on servers with and without a TLS    *)
(*             configuration and an auth registry;                         *)
(*   SpecMsg   message.go: NewMessage and the selectors of a Message;      *)
(*   SpecRead  Reads of the LimitedReader and the two resets of the Conn   *)
(*             that holds it;                                              *)
(*   SpecReset Reset and ResetBuffers on the Conns a session can have;     *)
(*   SpecDiscard  ReadData on a Conn with DiscardBody set, and the command *)
(*             read that follows it;                                       *)
(*   SpecID    messageids.go: goroutines in getCounter.                    *)
(***************************************************************************)
EXTENDS Integers, Sequences, FiniteSets, TLC

\* ------------------------------------------------------------------ bounds

\* Wall-clock readings (nanoseconds since the epoch) StartTX can stamp.  The
\* clock of a running server is past 1970, so every reading is positive, and
\* int(...) of it is the reading itself on the 64-bit build the workflow uses.
MaxClock == 1
\* Info headers accumulated between two resets.
MaxHdr == 2
\* Recipients a client gives one envelope.
MaxRcpt == 2
\* Bytes of message text (the terminating dot line not counted) a client sends
\* after one DATA.
MaxBody == 5
\* TLS upgrades of one session (each makes the session id anew).
MaxUpgrades == 1

\* ------------------------------------------------------- values and errors

NilAddr == "nil"
Addrs == {"a@x", "b@x"}
NilUser == "nil"
HdrNames == {"h1", "h2"}

NoErr == "nil"
ErrTransaction == "ErrTransaction"
\* SMTPError{552, "message size too large"}
Err552 == "SMTPError552"
\* errors of the underlying net.Conn
ErrTimeout == "timeout"
\* bufio's io.ErrNoProgress
ErrNoProgress == "ErrNoProgress"

Clock == 1..MaxClock

\* --------------------------------------------------------- LimitedReader

\* Conn.limitedReader before setupTextProto has made one (a nil pointer)
NilReader == [isNil |-> TRUE, N |-> 0, ReadsRemaining |-> 0, DidHitLimit |-> FALSE]

\* &LimitedReader{c, c.MaxSize, 0, false}
NewLimitedReader(maxSize) ==
    [isNil |-> FALSE, N |-> maxSize, ReadsRemaining |-> 0, DidHitLimit |-> FALSE]

\* The grace window: reads allowed once the limit is hit.
GraceReads == 10

\* A LimitedReader without a grace window: no Read is forwarded once the
\* budget is gone.
LimitedReaderRead_NoGrace(l, un, uerr) ==
    IF l.N <= 0
    THEN [l |-> [l EXCEPT !.DidHitLimit = TRUE, !.ReadsRemaining = @ - 1],
          n |-> 0, err |-> Err552, forwarded |-> FALSE]
    ELSE [l |-> [l EXCEPT !.N = @ - un], n |-> un, err |-> NoErr, forwarded |-> TRUE]

\* A LimitedReader whose budget stops at 0, as io.LimitedReader's does.
LimitedReaderRead_Clamped(l, un, uerr) ==
    LET l1 == IF l.N <= 0 /\ ~l.DidHitLimit
              THEN [l EXCEPT !.DidHitLimit = TRUE, !.ReadsRemaining = 10]
              ELSE l
        l2 == IF l1.DidHitLimit
              THEN [l1 EXCEPT !.ReadsRemaining = @ - 1]
              ELSE l1
        err == IF l1.DidHitLimit THEN Err552 ELSE NoErr
    IN  IF l1.DidHitLimit /\ l2.ReadsRemaining <= 0
        THEN [l |-> l2, n |-> 0, err |-> err, forwarded |-> FALSE]
        ELSE [l |-> [l2 EXCEPT !.N = IF @ - un < 0 THEN 0 ELSE @ - un],
              n |-> un,
              err |-> IF err # NoErr /\ uerr # NoErr THEN uerr ELSE err,
              forwarded |-> TRUE]

\* LimitedReader.Read.  un and uerr are what l.R.Read(p) returns if it is
\* called: un bytes and the error uerr.  The result is the reader afterwards,
\* the bytes and error returned, and whether l.R.Read was called at all.
LimitedReaderRead(l, un, uerr) ==
    LET l1 == IF l.N <= 0 /\ ~l.DidHitLimit
              THEN [l EXCEPT !.DidHitLimit = TRUE, !.ReadsRemaining = GraceReads]
              ELSE l
        l2 == IF l1.DidHitLimit
              THEN [l1 EXCEPT !.ReadsRemaining = @ - 1]
              ELSE l1
        err == IF l1.DidHitLimit THEN Err552 ELSE NoErr
    IN  IF l1.DidHitLimit /\ l2.ReadsRemaining <= 0
        THEN [l |-> l2, n |-> 0, err |-> err, forwarded |-> FALSE]
        ELSE [l |-> [l2 EXCEPT !.N = @ - un],
              n |-> un,
              err |-> IF err # NoErr /\ uerr # NoErr THEN uerr ELSE err,
              forwarded |-> TRUE]

\* ------------------------------------------------------------------ Conn

\* A Conn as the server makes it for an accepted socket.
NewConn(maxSize) ==
    [ID |-> 1, ClientHostname |-> "", IsTLS |-> FALSE, User |-> NilUser,
     FromAddr |-> NilAddr, ToAddr |-> <<>>, AdditionalHeaders |-> <<>>,
     MaxSize |-> maxSize, transaction |-> 0,
     textProto |-> FALSE, limitedReader |-> NilReader]

\* AddInfoHeader that puts the newest header last.
AddInfoHeader_Append(c, headerName, headerText) ==
    [c EXCEPT !.AdditionalHeaders = @ \o <<<<headerName, headerText>>>>]

\* Conn.AddInfoHeader: the newest header goes first.  A header line
\* "name: text\n" is the pair <<name, text>>.
AddInfoHeader(c, headerName, headerText) ==
    [c EXCEPT !.AdditionalHeaders = <<<<headerName, headerText>>>> \o @]

\* Conn.setupTextProto
setupTextProto(c) ==
    [c EXCEPT !.textProto = TRUE,
              !.limitedReader = IF c.MaxSize > 0 THEN NewLimitedReader(c.MaxSize) ELSE @]

\* Conn.tp: sets the textproto connection up once.
tp(c) == IF c.textProto THEN c ELSE setupTextProto(c)

\* StartTX without its check: a second MAIL starts over.
StartTX_Restart(c, from, now) ==
    [conn |-> [c EXCEPT !.transaction = now, !.FromAddr = from], err |-> NoErr]

\* Conn.StartTX; now is time.Now().UnixNano().
StartTX(c, from, now) ==
    IF c.transaction # 0
    THEN [conn |-> c, err |-> ErrTransaction]
    ELSE [conn |-> [c EXCEPT !.transaction = now, !.FromAddr = from], err |-> NoErr]

\* EndTX without its check: ending nothing is no error.
EndTX_Lenient(c) ==
    [conn |-> [c EXCEPT !.transaction = 0], err |-> NoErr]

\* Conn.EndTX
EndTX(c) ==
    IF c.transaction = 0
    THEN [conn |-> c, err |-> ErrTransaction]
    ELSE [conn |-> [c EXCEPT !.transaction = 0], err |-> NoErr]

\* ResetBuffers that refills the budget and leaves the hit-limit flag and
\* the grace counter as they are.
ResetBuffers_KeepLimit(c) ==
    [conn |-> [c EXCEPT !.FromAddr = NilAddr, !.ToAddr = <<>>,
                        !.AdditionalHeaders = <<>>, !.transaction = 0,
                        !.limitedReader.N = c.MaxSize],
     panic |-> c.limitedReader.isNil]

\* Conn.ResetBuffers.  The four envelope fields are assigned first; then
\* c.limitedReader.N is written through the pointer, which panics (nil pointer
\* dereference) when no LimitedReader was made: MaxSize <= 0, or tp() not yet
\* called.
ResetBuffers(c) ==
    LET cleared == [c EXCEPT !.FromAddr = NilAddr, !.ToAddr = <<>>,
                             !.AdditionalHeaders = <<>>, !.transaction = 0]
    IN  IF c.limitedReader.isNil
        THEN [conn |-> cleared, panic |-> TRUE]
        ELSE [conn |-> [cleared EXCEPT !.limitedReader =
                           [isNil |-> FALSE, N |-> c.MaxSize,
                            ReadsRemaining |-> 0, DidHitLimit |-> FALSE]],
              panic |-> FALSE]

\* Reset that leaves the authenticated user in place.
Reset_KeepUser(c) ==
    ResetBuffers(c)

\* Reset that makes the Conn anew, hostname and TLS flag included.
Reset_Anew(c) ==
    [conn |-> [tp(NewConn(c.MaxSize)) EXCEPT !.ID = c.ID],
     panic |-> c.limitedReader.isNil]

\* Reset that drops the authenticated user and re-arms the reader, and
\* leaves the envelope and its transaction as they are.
Reset_UserOnly(c) ==
    [conn |-> [c EXCEPT !.User = NilUser,
                        !.limitedReader = ResetBuffers(c).conn.limitedReader],
     panic |-> c.limitedReader.isNil]

\* Conn.Reset
Reset(c) ==
    LET r == ResetBuffers(c)
    IN  IF r.panic THEN r
        ELSE [conn |-> [r.conn EXCEPT !.User = NilUser], panic |-> FALSE]

\* ----------------------------------------------------------------- state

VARIABLES
    conn,       \* the Conn
    pc,         \* where the connection's goroutine is: "cmd", "data", "closed", "panic"
    last,       \* the last operation: what was asked and what came back
    cfg,        \* the Server's options
    sock,       \* bytes the client has written and the server has not read
    buf,        \* bytes bufio has read and textproto has not consumed
    berr,       \* bufio's pending read error
    client,     \* the client: what it is writing, how much text it has written
    txRcpt,     \* the recipients RCPT accepted since the last accepted MAIL
    data,       \* the text and recipients NewMessage is given
    email,      \* the Message NewMessage made of them
    ret,        \* what the last call on the Message returned
    rd,         \* the last Read of the LimitedReader, and what was read before
    dot,        \* ReadData with DiscardBody set: where it is, what it returned
    counter,    \* messageids.go's _counter
    charmux,    \* messageids.go's charmux: the goroutine that holds it, or 0
    gor         \* the goroutines in getCounter: where each is

\* What no step of a session changes: the server's options, and the Message
\* the embedding program looks at.
idVars == <<counter, charmux, gor>>
fixedVars == <<cfg, data, email, ret, rd, dot, idVars>>
sessVars == <<fixedVars, sock, buf, berr, client, txRcpt>>
vars == <<conn, pc, last, cfg, sock, buf, berr, client, txRcpt, data, email, ret,
          rd, dot, counter, charmux, gor>>

\* No text, no Message, nothing returned.
NoData == [hdr |-> "", from |-> "", to |-> <<>>, rcpt |-> <<>>, ctype |-> "",
           cte |-> "", valid |-> TRUE, kids |-> <<>>]
NoMessage == [isNil |-> TRUE]
NoRet == [val |-> <<>>, err |-> "nil"]
NoMessageAPI ==
    /\ data = NoData
    /\ email = NoMessage
    /\ ret = NoRet

\* Goroutines that call NewMessageID at the same time.
NumGoroutines == 2
Goroutines == 1..NumGoroutines

\* rd: what the last Read of the LimitedReader returned (n, err) and whether
\* it read from the underlying source (forwarded); the bytes Reads have
\* returned and the Reads issued without budget since the LimitedReader was
\* made or re-armed (delivered, hits); what the LimitedReader was like when
\* it was last re-armed (from); the Conn before the last reset (before).
NoRead ==
    [n |-> 0, err |-> NoErr, forwarded |-> FALSE, delivered |-> 0, hits |-> 0,
     from |-> "new", before |-> NewConn(0)]

\* dot: ReadData's discard branch.  step: "idle" (not called), "headers" (in
\* the Read into headers), "body" (in a Read of the loop), "done" and
\* "failed" (returned); n: the bytes the Read in progress has put into its
\* buffer; headers: len(headerString); val: the length of the string
\* returned; after: what the client wrote behind the dot line.
NoDot == [step |-> "idle", n |-> 0, headers |-> 0, val |-> 0, after |-> <<>>]

\* No Read of the LimitedReader made, ReadData not called, no goroutine in
\* getCounter: the counter is 0 as the package declares it, the lock is free.
NoReadsNoIDs ==
    /\ rd = NoRead
    /\ dot = NoDot
    /\ counter = 0
    /\ charmux = 0
    /\ gor = [g \in Goroutines |-> "idle"]

\* last: the operation, its argument, the error it returned, the
\* reply codes written, the Message handed to the delivery callback (its
\* Rcpt list and the length of its text), and the lines of the reply when it
\* has more than one (EHLO's).
NoMsg == [calls |-> 0, rcpt |-> <<>>, size |-> 0]
Msg(rcpt, size) == [calls |-> 1, rcpt |-> rcpt, size |-> size]
Did(op, arg, err, codes, msg) ==
    [op |-> op, arg |-> arg, err |-> err, codes |-> codes, msg |-> msg,
     lines |-> <<>>]
NoCall == Did("none", "", NoErr, <<>>, NoMsg)
Call(op, arg, err) == Did(op, arg, err, <<>>, NoMsg)

\* The client: "cmd" between commands, "body" while it writes message text,
\* "sent" once the dot line is written.
IdleClient == [mode |-> "cmd", bodySent |-> 0]
DefaultPreAuth == {"EHLO", "HELO", "AUTH", "STARTTLS", "QUIT", "NOOP", "RSET"}
NoServer == [MaxSize |-> 0, TLS |-> FALSE, Auth |-> FALSE, PreAuth |-> DefaultPreAuth]
\* Info headers the embedding program's hook adds to one envelope.
MaxHookHdr == 1

\* ------------------------------------------------- SpecConn: the Conn API

\* Per-message byte caps a SpecConn run is configured with (0 disables).
ConnMaxSizes == {0, 3}

InitConn ==
    /\ conn \in {NewConn(m) : m \in ConnMaxSizes}
    /\ pc = "cmd"
    /\ last = NoCall
    /\ cfg = NoServer
    /\ sock = <<>>
    /\ buf = <<>>
    /\ berr = NoErr
    /\ client = IdleClient
    /\ txRcpt = <<>>
    /\ NoMessageAPI
    /\ NoReadsNoIDs

CallTp ==
    /\ pc = "cmd"
    /\ conn' = tp(conn)
    /\ last' = Call("tp", "", NoErr)
    /\ pc' = pc
    /\ UNCHANGED sessVars

CallStartTX ==
    /\ pc = "cmd"
    /\ \E from \in Addrs, now \in Clock :
         LET r == StartTX(conn, from, now)
         IN  /\ conn' = r.conn
             /\ last' = Call("StartTX", from, r.err)
    /\ pc' = pc
    /\ UNCHANGED sessVars

CallEndTX ==
    /\ pc = "cmd"
    /\ LET r == EndTX(conn)
       IN  /\ conn' = r.conn
           /\ last' = Call("EndTX", "", r.err)
    /\ pc' = pc
    /\ UNCHANGED sessVars

CallResetBuffers ==
    /\ pc = "cmd"
    /\ LET r == ResetBuffers(conn)
       IN  /\ conn' = r.conn
           /\ pc' = IF r.panic THEN "panic" ELSE pc
           /\ last' = Call("ResetBuffers", "", NoErr)
    /\ UNCHANGED sessVars

CallReset ==
    /\ pc = "cmd"
    /\ LET r == Reset(conn)
       IN  /\ conn' = r.conn
           /\ pc' = IF r.panic THEN "panic" ELSE pc
           /\ last' = Call("Reset", "", NoErr)
    /\ UNCHANGED sessVars

CallAddInfoHeader ==
    /\ pc = "cmd"
    /\ Len(conn.AdditionalHeaders) < MaxHdr
    /\ \E h \in HdrNames :
         /\ conn' = AddInfoHeader(conn, h, "v")
         /\ last' = Call("AddInfoHeader", h, NoErr)
    /\ pc' = pc
    /\ UNCHANGED sessVars

NextConn ==
    \/ CallTp
    \/ CallStartTX
    \/ CallEndTX
    \/ CallResetBuffers
    \/ CallReset
    \/ CallAddInfoHeader

SpecConn == InitConn /\ [][NextConn]_vars

\* ------------------------------------------------- Spec: one SMTP session

\* The Server's per-message byte cap when one is set.
SessMaxSize == 4
\* The size of bufio's buffer: the most one Read of the socket can return.
BufSize == 6

Min(a, b) == IF a < b THEN a ELSE b

\* What travels on the socket, in units of one line: a command line, a line
\* of message text, the dot line that ends the message text.
Cmd(verb, arg) == [verb |-> verb, arg |-> arg]
ByteTok == [verb |-> "", arg |-> "byte"]
DotTok == [verb |-> "", arg |-> "."]
NoLine == [verb |-> "", arg |-> ""]

\* The whitelists of TestSMTPServerNoAuthCustomVerb, and the default one.
PreAuthLists == {DefaultPreAuth, {"AUTH", "FAKE"}, {"AUTH", "HELO"}}

\* A server's options.
Server(maxSize, tls, auth, preAuth) ==
    [MaxSize |-> maxSize, TLS |-> tls, Auth |-> auth, PreAuth |-> preAuth]

\* The servers without an auth registry: without a size cap and with one,
\* with a TLS configuration and without.
Configs ==
    {Server(0, TRUE, FALSE, DefaultPreAuth),
     Server(SessMaxSize, FALSE, FALSE, DefaultPreAuth)}

\* The servers with an auth registry: the default whitelist and the two of
\* TestSMTPServerNoAuthCustomVerb.
GateConfigs ==
    {Server(SessMaxSize, FALSE, TRUE, p) : p \in PreAuthLists}

\* The server with an auth registry and a TLS configuration.
TLSConfigs ==
    {Server(SessMaxSize, TRUE, TRUE, DefaultPreAuth)}

\* The servers with a size cap: with a TLS configuration and an auth
\* registry, with one of them, with neither.
EHLOConfigs ==
    {Server(SessMaxSize, tls, auth, DefaultPreAuth) : tls, auth \in BOOLEAN}

\* What a client gives with a verb.  "bad" is an argument that does not parse.
ArgsOf(verb) ==
    CASE verb = "MAIL" -> Addrs \cup {"bad"}
      [] verb = "RCPT" -> Addrs \cup {"bad"}
      [] verb = "AUTH" -> {"good", "wrong"}
      [] verb \in {"HELO", "EHLO"} -> {"host"}
      [] OTHER -> {""}

Verbs == {"HELO", "EHLO", "AUTH", "STARTTLS", "MAIL", "RCPT", "DATA",
          "RSET", "NOOP", "QUIT", "XXXX"}

InitWith(configs) ==
    /\ cfg \in configs
    /\ conn = NewConn(cfg.MaxSize)
    /\ pc = "cmd"
    /\ last = NoCall
    /\ sock = <<>>
    /\ buf = <<>>
    /\ berr = NoErr
    /\ client = IdleClient
    /\ txRcpt = <<>>
    /\ NoMessageAPI
    /\ NoReadsNoIDs

\* ---- reading: the socket, LimitedReader, bufio, textproto

\* What one Read of the socket can return when s is in flight: some of it, or
\* the read deadline's expiry.
SockReads(s) ==
    {[n |-> k, err |-> NoErr] : k \in 1..Min(BufSize, Len(s))}
        \cup {[n |-> 0, err |-> ErrTimeout]}

\* What bufio's fill makes of the LimitedReader's answer r to a Read for which
\* the socket had u.
Filled(u, r) ==
    [lr |-> r.l, n |-> r.n,
     err |-> IF r.n = 0 /\ r.err = NoErr THEN ErrNoProgress ELSE r.err,
     taken |-> IF r.forwarded THEN u.n ELSE 0]

\* bufio.Reader.fill over the reader textproto was given: the LimitedReader
\* when setupTextProto made one, the socket itself otherwise.  u is what the
\* socket returns.  A Read that returns no bytes and no error is repeated;
\* after 100 of them fill gives up with io.ErrNoProgress.
Fill(c, u) ==
    IF c.limitedReader.isNil
    THEN [lr |-> c.limitedReader, n |-> u.n, err |-> u.err, taken |-> u.n]
    ELSE Filled(u, LimitedReaderRead(c.limitedReader, u.n, u.err))

\* The line textproto gets after the fill f, with s in flight.
LineAfterFill(s, f) ==
    IF f.n > 0
    THEN [line |-> s[1], err |-> NoErr, buf |-> SubSeq(s, 2, f.taken),
          berr |-> f.err, lr |-> f.lr, sock |-> SubSeq(s, f.taken + 1, Len(s))]
    ELSE [line |-> NoLine, err |-> f.err, buf |-> <<>>, berr |-> NoErr,
          lr |-> f.lr, sock |-> SubSeq(s, f.taken + 1, Len(s))]

\* textproto's ReadLine over bufio: a buffered line if there is one, else the
\* pending error, else one fill.
ReadLine(c, b, e, s, u) ==
    IF b # <<>>
    THEN [line |-> Head(b), err |-> NoErr, buf |-> Tail(b), berr |-> e,
          lr |-> c.limitedReader, sock |-> s]
    ELSE IF e # NoErr
    THEN [line |-> NoLine, err |-> e, buf |-> <<>>, berr |-> NoErr,
          lr |-> c.limitedReader, sock |-> s]
    ELSE LineAfterFill(s, Fill(c, u))

\* The line r split into verb and arguments, on the Conn c.
Command(c, r) ==
    [conn |-> [c EXCEPT !.limitedReader = r.lr], verb |-> r.line.verb,
     arg |-> r.line.arg, err |-> r.err, buf |-> r.buf, berr |-> r.berr,
     sock |-> r.sock]

\* Conn.ReadSMTP with s in flight: tp() and one line, split into verb and
\* arguments.
ReadSMTP(s, u) ==
    Command(tp(conn), ReadLine(tp(conn), buf, berr, s, u))

\* The client writes one command line and waits for the answer (no
\* pipelining); the server's ReadSMTP returns it, or fails.
Recv(verb, arg) ==
    ReadSMTP(Append(sock, Cmd(verb, arg)), [n |-> Len(sock) + 1, err |-> NoErr])

\* The place of the dot line in what bufio holds (0: not there).
RECURSIVE DotAt(_, _)
DotAt(b, i) ==
    IF i > Len(b) THEN 0
    ELSE IF b[i] = DotTok THEN i
    ELSE DotAt(b, i + 1)

\* ---- the command loop

\* A gate that lets every verb through.
AuthRequired_Off(verb) == FALSE

\* The pre-auth gate.
AuthRequired(verb) ==
    cfg.Auth /\ conn.User = NilUser /\ verb \notin cfg.PreAuth

\* The server waits for a command, the client sends this one, ReadSMTP
\* returns it and the gate lets it through.
Got(r) ==
    /\ pc = "cmd"
    /\ client.mode = "cmd"
    /\ r.err = NoErr
    /\ ~AuthRequired(r.verb)

\* Conn.WriteSMTP: the line "<code> <message>".
WriteSMTP(code, message) == [code |-> code, sep |-> " ", text |-> message]

\* WriteEHLO that writes the final form "250 <message>".
WriteEHLO_Final(message) == WriteSMTP(250, message)

\* Conn.WriteEHLO: the continuation line "250-<message>".
WriteEHLO(message) == [code |-> 250, sep |-> "-", text |-> message]

\* The lines EHLO is answered with on the server s and the Conn c: the
\* hostname, the extensions, and HELP as the last line.
EHLOReply(s, c) ==
    <<WriteEHLO("hostname"), WriteEHLO("SIZE")>>
        \o (IF s.TLS /\ ~c.IsTLS THEN <<WriteEHLO("STARTTLS")>> ELSE <<>>)
        \o (IF s.Auth /\ "AUTH" \in s.PreAuth THEN <<WriteEHLO("AUTH")>> ELSE <<>>)
        \o <<WriteEHLO("8BITMIME"), WriteSMTP(250, "HELP")>>

\* The answer is written, on the lines given; after 354 the client goes on
\* with the message text.
Replied(r, codes, msg, lines) ==
    /\ last' = [Did(r.verb, r.arg, NoErr, codes, msg) EXCEPT !.lines = lines]
    /\ buf' = r.buf
    /\ berr' = r.berr
    /\ sock' = r.sock
    /\ client' = IF codes = <<354>>
                 THEN [client EXCEPT !.mode = "body", !.bodySent = 0]
                 ELSE client

\* The answer is written; after 354 the client goes on with the message text.
Answered(r, codes, msg) ==
    /\ last' = Did(r.verb, r.arg, NoErr, codes, msg)
    /\ buf' = r.buf
    /\ berr' = r.berr
    /\ sock' = r.sock
    /\ client' = IF codes = <<354>>
                 THEN [client EXCEPT !.mode = "body", !.bodySent = 0]
                 ELSE client

\* A handler panicked: the goroutine is gone and nothing is written.
Panicked(r) ==
    /\ last' = Did(r.verb, r.arg, "panic", <<>>, NoMsg)
    /\ buf' = r.buf
    /\ berr' = r.berr
    /\ sock' = r.sock
    /\ pc' = "panic"
    /\ UNCHANGED client

\* A verb outside PreAuthVerbsAllowed before authentication: 530.
CmdAuthRequired ==
    \E verb \in Verbs :
      \E arg \in ArgsOf(verb) :
        \E r \in {Recv(verb, arg)} :
            /\ pc = "cmd"
            /\ client.mode = "cmd"
            /\ r.err = NoErr
            /\ AuthRequired(r.verb)
            /\ conn' = r.conn
            /\ pc' = "cmd"
            /\ Answered(r, <<530>>, NoMsg)
            /\ UNCHANGED <<fixedVars, txRcpt>>

\* HELO and EHLO: the client's hostname is kept; 250, for EHLO on several
\* lines.
CmdHELO ==
    \E verb \in {"HELO", "EHLO"} :
      \E r \in {Recv(verb, "host")} :
          /\ Got(r)
          /\ conn' = [r.conn EXCEPT !.ClientHostname = r.arg]
          /\ pc' = "cmd"
          /\ IF r.verb = "EHLO"
             THEN Replied(r, <<250>>, NoMsg, EHLOReply(cfg, r.conn))
             ELSE Answered(r, <<250>>, NoMsg)
          /\ UNCHANGED <<fixedVars, txRcpt>>

\* AUTH, asked of a server that has a registry: the mechanism's handler and
\* the credential callback decide; 235 and the user is kept, or 535.
CmdAUTH ==
    \E arg \in ArgsOf("AUTH") :
      \E r \in {Recv("AUTH", arg)} :
          /\ Got(r)
          /\ cfg.Auth
          /\ IF r.arg = "good"
             THEN /\ conn' = [r.conn EXCEPT !.User = "u"]
                  /\ Answered(r, <<235>>, NoMsg)
             ELSE /\ conn' = r.conn
                  /\ Answered(r, <<535>>, NoMsg)
          /\ pc' = "cmd"
          /\ UNCHANGED <<fixedVars, txRcpt>>

\* A server that takes every STARTTLS as if it had a TLS configuration.
TLSAvailable_Always(s) == TRUE

\* Whether a TLS configuration is installed.
TLSAvailable(s) == s.TLS

\* STARTTLS: 454 without a TLS configuration.  Otherwise 220 and the
\* handshake; when it fails the connection is closed, when it succeeds the
\* state from before is discarded (Reset), the TLS flag is set and the session
\* id is made anew.
CmdSTARTTLS ==
    \E handshake \in IF cfg.TLS THEN BOOLEAN ELSE {TRUE} :
      \E r \in {Recv("STARTTLS", "")} :
      \E z \in {Reset(r.conn)} :
          /\ Got(r)
          /\ conn.ID <= MaxUpgrades
          /\ IF ~TLSAvailable(cfg)
             THEN /\ conn' = r.conn
                  /\ pc' = "cmd"
                  /\ Answered(r, <<454>>, NoMsg)
                  /\ UNCHANGED txRcpt
             ELSE IF ~handshake
             THEN /\ conn' = r.conn
                  /\ pc' = "closed"
                  /\ Answered(r, <<220>>, NoMsg)
                  /\ UNCHANGED txRcpt
             ELSE IF z.panic
             THEN /\ conn' = z.conn
                  /\ Panicked(r)
                  /\ txRcpt' = <<>>
             ELSE /\ conn' = [z.conn EXCEPT !.IsTLS = TRUE, !.ID = @ + 1]
                  /\ pc' = "cmd"
                  /\ Answered(r, <<220>>, NoMsg)
                  /\ txRcpt' = <<>>
          /\ UNCHANGED fixedVars

\* MAIL FROM: 501 when the argument does not parse, 503 when a transaction is
\* active (StartTX refuses), else 250.  (The SIZE parameter is left out.)
CmdMAIL ==
    \E arg \in ArgsOf("MAIL"), now \in Clock :
      \E r \in {Recv("MAIL", arg)} :
      \E t \in {StartTX(r.conn, r.arg, now)} :
          /\ Got(r)
          /\ pc' = "cmd"
          /\ IF r.arg = "bad"
             THEN /\ conn' = r.conn
                  /\ Answered(r, <<501>>, NoMsg)
                  /\ UNCHANGED txRcpt
             ELSE IF t.err # NoErr
             THEN /\ conn' = t.conn
                  /\ Answered(r, <<503>>, NoMsg)
                  /\ UNCHANGED txRcpt
             ELSE /\ conn' = t.conn
                  /\ Answered(r, <<250>>, NoMsg)
                  /\ txRcpt' = <<>>
          /\ UNCHANGED fixedVars

\* RCPT TO that appends without asking for a transaction.
RcptReply_NoTxCheck(c, arg, parseFirst) ==
    IF arg = "bad" THEN 501 ELSE 250

\* RCPT TO: 501 when the argument does not parse, 503 without a transaction,
\* else 250.  The spec does not fix which of the two refusals a malformed RCPT
\* without a transaction gets (parseFirst).
RcptReply(c, arg, parseFirst) ==
    IF arg = "bad" /\ (parseFirst \/ c.transaction # 0) THEN 501
    ELSE IF c.transaction = 0 THEN 503
    ELSE 250

\* RCPT TO: on 250 the address is appended to the recipient list.
CmdRCPT ==
    \E arg \in ArgsOf("RCPT") :
      \E parseFirst \in IF arg = "bad" THEN BOOLEAN ELSE {TRUE} :
      \E r \in {Recv("RCPT", arg)} :
      \E code \in {RcptReply(r.conn, r.arg, parseFirst)} :
          /\ Got(r)
          /\ Len(conn.ToAddr) < MaxRcpt
          /\ pc' = "cmd"
          /\ conn' = IF code = 250
                     THEN [r.conn EXCEPT !.ToAddr = Append(@, r.arg)]
                     ELSE r.conn
          /\ txRcpt' = IF code = 250 THEN Append(txRcpt, r.arg) ELSE txRcpt
          /\ Answered(r, <<code>>, NoMsg)
          /\ UNCHANGED fixedVars

\* DATA that does not look at the recipient list.
DataReply_NoRcptCheck(c) ==
    IF c.transaction = 0 THEN 503 ELSE 354

\* DATA: 554 without a recipient, 503 without a transaction, else 354.
DataReply(c) ==
    IF Len(c.ToAddr) = 0 THEN 554
    ELSE IF c.transaction = 0 THEN 503
    ELSE 354

\* DATA: after 354 the message text is read.
CmdDATA ==
    \E r \in {Recv("DATA", "")} :
    \E code \in {DataReply(r.conn)} :
        /\ Got(r)
        /\ conn' = r.conn
        /\ pc' = IF code = 354 THEN "data" ELSE "cmd"
        /\ Answered(r, <<code>>, NoMsg)
        /\ UNCHANGED <<fixedVars, txRcpt>>

\* RSET: ResetBuffers, 250.
CmdRSET ==
    \E r \in {Recv("RSET", "")} :
    \E z \in {ResetBuffers(r.conn)} :
        /\ Got(r)
        /\ conn' = z.conn
        /\ IF z.panic
           THEN Panicked(r)
           ELSE /\ pc' = "cmd"
                /\ Answered(r, <<250>>, NoMsg)
        /\ txRcpt' = <<>>
        /\ UNCHANGED fixedVars

\* NOOP: 250.
CmdNOOP ==
    \E r \in {Recv("NOOP", "")} :
        /\ Got(r)
        /\ conn' = r.conn
        /\ pc' = "cmd"
        /\ Answered(r, <<250>>, NoMsg)
        /\ UNCHANGED <<fixedVars, txRcpt>>

\* QUIT: 221 and the connection is closed.
\* A QUIT handler that says goodbye and goes on reading commands.
QuitReply_KeepOpen(c) ==
    [conn |-> c, code |-> 221, pc |-> "cmd"]

\* What the command loop does with QUIT: 221, and the loop ends; the
\* envelope is dropped with the Conn, the delivery callback is not called.
QuitReply(c) ==
    [conn |-> c, code |-> 221, pc |-> "closed"]

\* QUIT: 221 and the connection is closed.
CmdQUIT ==
    \E r \in {Recv("QUIT", "")} :
    \E h \in {QuitReply(r.conn)} :
        /\ Got(r)
        /\ conn' = h.conn
        /\ pc' = h.pc
        /\ Answered(r, <<h.code>>, NoMsg)
        /\ UNCHANGED <<fixedVars, txRcpt>>

\* A handler that takes an unrecognized verb for an RSET.
UnknownVerb_Resets(c) ==
    [conn |-> ResetBuffers(c).conn, code |-> 500]

\* What the command loop does with a verb it does not know: 500, and the
\* Conn is left alone.
UnknownVerb(c) ==
    [conn |-> c, code |-> 500]

\* Any other verb: 500.
CmdUnknown ==
    \E r \in {Recv("XXXX", "")} :
    \E h \in {UnknownVerb(r.conn)} :
        /\ Got(r)
        /\ conn' = h.conn
        /\ pc' = "cmd"
        /\ Answered(r, <<h.code>>, NoMsg)
        /\ UNCHANGED <<fixedVars, txRcpt>>

\* A command loop that shrugs a read error off and goes on reading.
Failed_KeepOpen(c, op, err) ==
    /\ buf' = <<>>
    /\ berr' = NoErr
    /\ sock' = <<>>
    /\ conn' = c
    /\ pc' = "cmd"
    /\ last' = Did(op, "", err, <<>>, NoMsg)
    /\ UNCHANGED <<fixedVars, client, txRcpt>>

\* A read failed.  The oversize error is answered with its code and the
\* session is reset; then, as after any other read error, the connection is
\* closed, and what was in flight is lost with the socket.
Failed(c, op, err) ==
    LET z == Reset(c)
    IN  /\ buf' = <<>>
        /\ berr' = NoErr
        /\ sock' = <<>>
        /\ UNCHANGED <<fixedVars, client>>
        /\ IF err = Err552
           THEN /\ conn' = z.conn
                /\ pc' = IF z.panic THEN "panic" ELSE "closed"
                /\ last' = Did(op, "", err, <<552>>, NoMsg)
                /\ txRcpt' = <<>>
           ELSE /\ conn' = c
                /\ pc' = "closed"
                /\ last' = Did(op, "", err, <<>>, NoMsg)
                /\ UNCHANGED txRcpt

\* ReadSMTP returned an error: the one bufio held back, or the expiry of the
\* read deadline before the client sent anything.
ReadError ==
    \E r \in {ReadSMTP(sock, [n |-> 0, err |-> ErrTimeout])} :
        /\ pc = "cmd"
        /\ client.mode = "cmd"
        /\ sock = <<>>
        /\ r.err # NoErr
        /\ Failed(r.conn, "ReadSMTP", r.err)

\* After 354 the client writes the message text, in as many segments as it
\* likes, and ends it with the dot line.
ClientSendBody ==
    /\ pc \in {"cmd", "data"}
    /\ client.mode = "body"
    /\ \E k \in 0..(MaxBody - client.bodySent), final \in BOOLEAN :
         /\ k > 0 \/ final
         /\ sock' = sock \o [i \in 1..k |-> ByteTok] \o (IF final THEN <<DotTok>> ELSE <<>>)
         /\ client' = [client EXCEPT !.bodySent = @ + k,
                          !.mode = IF final THEN "sent" ELSE "body"]
    /\ UNCHANGED <<conn, pc, last, fixedVars, buf, berr, txRcpt>>

\* What the handler does with the text the dot reader has so far: b is what
\* bufio holds of it, e bufio's pending error, s what is still in flight, c the
\* Conn.  When the dot line is there, the handler goes on: the info headers are
\* put before the text, NewMessage parses it (parsed), the delivery callback is
\* called (accepted); 554 when either fails, else 250 and EndTX.
DataRead(c, b, e, s) ==
    \E end \in {DotAt(b, 1)} :
        IF end > 0
        THEN \E parsed \in BOOLEAN, accepted \in BOOLEAN :
             /\ buf' = SubSeq(b, end + 1, Len(b))
             /\ berr' = e
             /\ sock' = s
             /\ pc' = "cmd"
             /\ client' = [client EXCEPT !.mode = "cmd", !.bodySent = 0]
             /\ UNCHANGED <<fixedVars, txRcpt>>
             /\ IF ~parsed
                THEN /\ conn' = c
                     /\ last' = Did("DATA.", "", NoErr, <<554>>, NoMsg)
                ELSE IF accepted
                THEN /\ conn' = EndTX(c).conn
                     /\ last' = Did("DATA.", "", NoErr, <<250>>, Msg(c.ToAddr, client.bodySent))
                ELSE /\ conn' = c
                     /\ last' = Did("DATA.", "", NoErr, <<554>>, Msg(c.ToAddr, client.bodySent))
        ELSE IF e # NoErr
        THEN Failed(c, "DATA.", e)
        ELSE /\ buf' = <<>>
             /\ berr' = NoErr
             /\ sock' = s
             /\ conn' = c
             /\ pc' = "data"
             /\ UNCHANGED <<last, fixedVars, client, txRcpt>>

\* Conn.ReadData (DiscardBody off): ReadDotLines takes lines up to the dot
\* line, filling the buffer when it runs empty.  One step is one fill and the
\* lines it brings; u is what the socket returns to it.
ReadData ==
    \E u \in SockReads(sock) :
      \E f \in {Fill(tp(conn), u)} :
        /\ pc = "data"
        /\ IF buf = <<>> /\ berr = NoErr
           THEN DataRead([tp(conn) EXCEPT !.limitedReader = f.lr],
                         SubSeq(sock, 1, f.taken), f.err,
                         SubSeq(sock, f.taken + 1, Len(sock)))
           ELSE DataRead(tp(conn), buf, berr, sock)

\* The embedding program adds an info header (a hook run on the connection's
\* goroutine between two commands).
HookAddInfoHeader ==
    /\ pc = "cmd"
    /\ client.mode = "cmd"
    /\ Len(conn.AdditionalHeaders) < MaxHookHdr
    /\ conn' = AddInfoHeader(conn, "h1", "v")
    /\ last' = Did("AddInfoHeader", "h1", NoErr, <<>>, NoMsg)
    /\ UNCHANGED <<pc, fixedVars, sock, buf, berr, client, txRcpt>>

\* The command loop of a server without an auth registry: its clients send
\* no AUTH.
Next ==
    \/ CmdHELO
    \/ CmdSTARTTLS
    \/ CmdMAIL
    \/ CmdRCPT
    \/ CmdDATA
    \/ CmdRSET
    \/ CmdNOOP
    \/ CmdQUIT
    \/ CmdUnknown
    \/ ReadError
    \/ ClientSendBody
    \/ ReadData
    \/ HookAddInfoHeader

Init == InitWith(Configs)

Spec == Init /\ [][Next]_vars

\* The command loop of a server with an auth registry.
NextGate ==
    \/ CmdAuthRequired
    \/ CmdAUTH
    \/ Next

InitGate == InitWith(GateConfigs)

SpecGate == InitGate /\ [][NextGate]_vars

\* The same command loop on a server that also has a TLS configuration.
InitTLS == InitWith(TLSConfigs)

SpecTLS == InitTLS /\ [][NextGate]_vars

\* The command loop with clients that greet, authenticate, upgrade and reset
\* but send no mail, and no verb the gate would refuse.
NextEHLO ==
    \/ CmdHELO
    \/ CmdAUTH
    \/ CmdSTARTTLS
    \/ CmdRSET
    \/ CmdNOOP
    \/ CmdQUIT
    \/ CmdUnknown
    \/ ReadError
    \/ HookAddInfoHeader

InitEHLO == InitWith(EHLOConfigs)

SpecEHLO == InitEHLO /\ [][NextEHLO]_vars

\* ------------------------------------------------ SpecMsg: the Message API

\* Addresses in the To header of one message.
MaxTo == 2
\* Parts of one multipart body.
MaxKids == 2

\* Mail addresses; two of them differ in case only.
MsgAddrs == {"a@x", "b@x", "A@x"}
\* mail.Address
Address(name, addr) == [Name |-> name, Address |-> addr]

ErrNoMediaType == "mime: no media type"
\* the error of quotedprintable's reader or of base64's Decode
ErrDecode == "decode"
\* the error of mail.ReadMessage on a header block that does not parse
ErrHeader == "malformed header"
\* the error of Header.AddressList("From") without a From address
ErrNoFrom == "mail: header not in message"
ErrNoBody == "found, but no data in body"
ErrNoAlternative == "No multipart/alternative section found"
ErrNoContent == "No content found in multipart/alternative section"

TextTypes == {"text/plain", "text/html"}
MultipartTypes == {"multipart/mixed", "multipart/alternative", "multipart/related"}
\* Content-Transfer-Encoding values ("": none given)
Encodings == {"", "quoted-printable", "base64"}

\* Sequences over S of length up to n.
SeqsUpTo(S, n) == UNION {[1..k -> S] : k \in 0..n}

\* ---- the text NewMessage is given
\* A part as it stands in the text: the Content-Type and
\* Content-Transfer-Encoding of its header block, whether its body is valid in
\* that encoding, and, for a multipart part, the parts between its boundaries.
WirePart(ctype, cte, valid, kids) ==
    [ctype |-> ctype, cte |-> cte, valid |-> valid, kids |-> kids]

\* The parts inside a nested multipart/alternative part: none, or each text
\* type at most once, in either order.
WireAltKids ==
    {k \in SeqsUpTo({WirePart(t, "", TRUE, <<>>) : t \in TextTypes}, 2) :
        \A i, j \in 1..Len(k) : i # j => k[i] # k[j]}

\* The parts of a multipart body: text/plain parts in every encoding, of
\* valid and of invalid bytes, a text/html part as written, a part without a
\* Content-Type, multipart/alternative parts.
WireKids ==
    {WirePart("text/plain", e, v, <<>>) : e \in Encodings \ {""}, v \in BOOLEAN}
        \cup {WirePart(t, "", TRUE, <<>>) : t \in TextTypes \cup {""}}
        \cup {WirePart("multipart/alternative", "", TRUE, k) : k \in WireAltKids}

\* The text of a message and the recipients of its envelope.  hdr: "ok", or
\* "eof" (the header block is all there is), or "bad" (it does not parse).
Data(hdr, from, to, rcpt, p) ==
    [hdr |-> hdr, from |-> from, to |-> to, rcpt |-> rcpt, ctype |-> p.ctype,
     cte |-> p.cte, valid |-> p.valid, kids |-> p.kids]

\* Messages of one part, in every encoding, with and without Content-Type,
\* From and body.
SingleData ==
    {Data(h, f, <<>>, <<>>, WirePart(t, e, v, <<>>)) :
        h \in {"ok", "eof", "bad"}, f \in {"s@x", ""},
        t \in TextTypes \cup {""}, e \in Encodings, v \in BOOLEAN}

\* Multipart messages.
MultipartData ==
    {Data("ok", "s@x", <<>>, <<>>, WirePart(t, "", TRUE, k)) :
        t \in MultipartTypes, k \in SeqsUpTo(WireKids, MaxKids)}

\* Messages of one text part with every To header and every envelope.
EnvelopeData ==
    {Data("ok", "s@x", to, rcpt, WirePart("text/plain", "", TRUE, <<>>)) :
        to \in SeqsUpTo({Address("N", a) : a \in MsgAddrs}, MaxTo),
        rcpt \in SeqsUpTo({Address("", a) : a \in MsgAddrs}, MaxRcpt)}

\* ---- message.go

\* mime.ParseMediaType of a Content-Type value (parameters left out).
ParseMediaType(v) ==
    [mediaType |-> v, err |-> IF v = "" THEN ErrNoMediaType ELSE NoErr]

\* strings.HasPrefix(mediaType, "multipart/")
HasPrefixMultipart(mediaType) == mediaType \in MultipartTypes

\* A MIME header: the two fields the code asks for.
MIMEHeader(ctype, cte) == [ContentType |-> ctype, cte |-> cte]

\* Bytes to read: where in the text they are (id), whether they are as
\* written ("raw") or transfer-decoded ("decoded"), whether reading them
\* fails, whether they are valid in the encoding their header names, and the
\* parts between their boundaries.
Content(id, valid, kids) ==
    [id |-> id, form |-> "raw", fails |-> FALSE, valid |-> valid, kids |-> kids]

\* quotedprintable.NewReader(content): reading decodes, and fails on text
\* that is not quoted-printable.
QPReader(content) ==
    [content EXCEPT !.form = "decoded", !.fails = @ \/ ~content.valid]

\* A nil *Part, and a Part.
NilPart == [isNil |-> TRUE]
Part(header, body) ==
    [isNil |-> FALSE, Header |-> header, Body |-> body, Children |-> <<>>]

\* readToPart after the reader is chosen: ioutil.ReadAll, then base64.
readAll(header, stream) ==
    IF stream.fails
    THEN [part |-> NilPart, err |-> ErrDecode]
    ELSE IF header.cte = "base64"
    THEN IF stream.valid
         THEN [part |-> Part(header, [stream EXCEPT !.form = "decoded"]), err |-> NoErr]
         ELSE [part |-> NilPart, err |-> ErrDecode]
    ELSE [part |-> Part(header, stream), err |-> NoErr]

\* readToPart
readToPart(header, content) ==
    readAll(header, IF header.cte = "quoted-printable" THEN QPReader(content) ELSE content)

\* multipart.Reader.NextPart for the i-th part w of the body with the given
\* id: its header and a reader of its body.  A quoted-printable part is
\* decoded by the reader itself, which hides the Content-Transfer-Encoding.
NextPart(w, i, id) ==
    IF w.cte = "quoted-printable"
    THEN [Header |-> MIMEHeader(w.ctype, ""),
          body |-> QPReader(Content(10 * id + i, w.valid, w.kids))]
    ELSE [Header |-> MIMEHeader(w.ctype, w.cte),
          body |-> Content(10 * id + i, w.valid, w.kids)]

\* What parseContent returns: the parts and the error, or a panic.
Parsed(parts, err) == [parts |-> parts, err |-> err, panic |-> FALSE]
ParsePanic == [parts |-> <<>>, err |-> NoErr, panic |-> TRUE]

RECURSIVE parseContent(_, _)
RECURSIVE parseParts(_, _, _)

\* The body of parseContent's loop for the part p: readToPart, whose error
\* is overwritten by that of mime.ParseMediaType, so that a part whose body
\* does not decode goes on as a nil *Part.  part.Body of a nil part panics.
parsePart(content, i, acc, p, part, partType, subParts) ==
    IF partType.err # NoErr
    THEN Parsed(<<>>, partType.err)
    ELSE IF ~HasPrefixMultipart(partType.mediaType)
    THEN parseParts(content, i + 1, Append(acc, part))
    ELSE IF part.isNil
    THEN ParsePanic
    ELSE IF subParts.panic \/ subParts.err # NoErr
    THEN subParts
    ELSE parseParts(content, i + 1, Append(acc, [part EXCEPT !.Children = subParts.parts]))

\* The sub-parts of the part p when it is a multipart one that was read.
subPartsOf(p, part) ==
    IF HasPrefixMultipart(p.Header.ContentType) /\ ~part.isNil
    THEN parseContent(p.Header, part.Body)
    ELSE Parsed(<<>>, NoErr)

\* parseContent's loop over the parts of a multipart body, from the i-th on.
nextParts(content, i, acc, p, part) ==
    parsePart(content, i, acc, p, part, ParseMediaType(p.Header.ContentType),
              subPartsOf(p, part))

parseParts(content, i, acc) ==
    IF i > Len(content.kids)
    THEN Parsed(acc, NoErr)
    ELSE nextParts(content, i, acc, NextPart(content.kids[i], i, content.id),
                   readToPart(NextPart(content.kids[i], i, content.id).Header,
                              NextPart(content.kids[i], i, content.id).body).part)

\* parseContent's branch for a body that is not multipart.
singlePart(r) ==
    IF r.err # NoErr THEN Parsed(<<>>, r.err) ELSE Parsed(<<r.part>>, NoErr)

\* parseContent.  A header without Content-Type is application/octet-stream.
parseContent(header, content) ==
    IF HasPrefixMultipart(ParseMediaType(header.ContentType).mediaType)
    THEN parseParts(content, 1, <<>>)
    ELSE singlePart(readToPart(header, content))

\* bytes.NewBuffer(m.RawBody): a new reader, at the start of the body.
NewBuffer(rawBody) == rawBody

\* Message.Parts
Parts(m) == parseContent(m.Header, NewBuffer(m.RawBody))

\* NewMessage that takes the recipients from the To header.
NewMessage_RcptFromTo(d) ==
    [msg |-> [isNil |-> FALSE, Rcpt |-> d.to, To |-> d.to, From |-> d.from,
              Header |-> MIMEHeader(d.ctype, d.cte),
              RawBody |-> Content(0, d.valid, d.kids)],
     err |-> NoErr]

\* NewMessage(conn, data, rcpt, logger).  When mail.ReadMessage ends on
\* io.EOF, a Content-Type (if there is none) and an empty body are appended
\* and the text is read again.
NewMessage(d) ==
    IF d.hdr = "bad"
    THEN [msg |-> NoMessage, err |-> ErrHeader]
    ELSE IF d.from = ""
    THEN [msg |-> NoMessage, err |-> ErrNoFrom]
    ELSE [msg |-> [isNil |-> FALSE, Rcpt |-> d.rcpt, To |-> d.to, From |-> d.from,
                   Header |-> MIMEHeader(IF d.hdr = "eof" /\ d.ctype = ""
                                         THEN "text/plain" ELSE d.ctype, d.cte),
                   RawBody |-> IF d.hdr = "eof"
                               THEN Content(0, TRUE, <<>>)
                               ELSE Content(0, d.valid, d.kids)],
          err |-> NoErr]

\* What a selector returns: a value and an error, or a panic.
Returned(val, err) == [val |-> val, err |-> err, panic |-> FALSE]
SelectorPanic == [val |-> <<>>, err |-> NoErr, panic |-> TRUE]

\* strings.ToLower on the addresses of MsgAddrs.
ToLower(addr) == IF addr = "A@x" THEN "a@x" ELSE addr

\* BCC that compares addresses without regard to case.
RECURSIVE BCCFrom_AnyCase(_, _, _)
BCCFrom_AnyCase(rcpt, i, inHeaders) ==
    IF i > Len(rcpt) THEN <<>>
    ELSE (IF ToLower(rcpt[i].Address) \in {ToLower(a) : a \in inHeaders}
          THEN <<>> ELSE <<rcpt[i]>>)
         \o BCCFrom_AnyCase(rcpt, i + 1, inHeaders)

\* BCC's second loop: the recipients, from the i-th on, whose address is not
\* in the map.
RECURSIVE BCCFrom(_, _, _)
BCCFrom(rcpt, i, inHeaders) ==
    IF i > Len(rcpt) THEN <<>>
    ELSE (IF rcpt[i].Address \in inHeaders THEN <<>> ELSE <<rcpt[i]>>)
         \o BCCFrom(rcpt, i + 1, inHeaders)

\* Message.BCC
BCC(m) ==
    BCCFrom(m.Rcpt, 1, {m.To[i].Address : i \in 1..Len(m.To)})

\* findTypeInParts that returns the last part of the type.
findTypeInParts_Last(contentType, parts, i) ==
    IF \E j \in i..Len(parts) : parts[j].isNil
    THEN [part |-> NilPart, found |-> FALSE, panic |-> TRUE]
    ELSE IF \A j \in i..Len(parts) : parts[j].Header.ContentType # contentType
    THEN [part |-> NilPart, found |-> FALSE, panic |-> FALSE]
    ELSE [part |-> parts[CHOOSE j \in i..Len(parts) :
                          /\ parts[j].Header.ContentType = contentType
                          /\ \A k \in (j + 1)..Len(parts) :
                                parts[k].Header.ContentType # contentType],
          found |-> TRUE, panic |-> FALSE]

\* findTypeInParts, from the i-th part on: the first part of the type, a nil
\* part (found: FALSE) when there is none; p.Header of a nil part panics.
RECURSIVE findTypeInParts(_, _, _)
findTypeInParts(contentType, parts, i) ==
    IF i > Len(parts)
    THEN [part |-> NilPart, found |-> FALSE, panic |-> FALSE]
    ELSE IF parts[i].isNil
    THEN [part |-> NilPart, found |-> FALSE, panic |-> TRUE]
    ELSE IF /\ ParseMediaType(parts[i].Header.ContentType).err = NoErr
            /\ ParseMediaType(parts[i].Header.ContentType).mediaType = contentType
    THEN [part |-> parts[i], found |-> TRUE, panic |-> FALSE]
    ELSE findTypeInParts(contentType, parts, i + 1)

\* FindBody's end: the part of the type among the alternatives.
bodyOf(f) ==
    IF f.panic THEN SelectorPanic
    ELSE IF ~f.found THEN Returned(<<>>, ErrNoContent)
    ELSE Returned(f.part.Body, NoErr)

\* FindBody with the alternatives chosen.
bodyAmong(contentType, alternatives) ==
    IF Len(alternatives) = 0
    THEN Returned(<<>>, ErrNoAlternative)
    ELSE bodyOf(findTypeInParts(contentType, alternatives, 1))

\* FindBody's default case: the children of the first multipart/alternative
\* part.
bodyInAlternative(contentType, alt) ==
    IF alt.panic THEN SelectorPanic
    ELSE bodyAmong(contentType, IF alt.found THEN alt.part.Children ELSE <<>>)

\* FindBody's switch.
bodyInParts(contentType, mediaType, parts) ==
    IF mediaType = contentType
    THEN IF Len(parts) > 0
         THEN IF parts[1].isNil THEN SelectorPanic ELSE Returned(parts[1].Body, NoErr)
         ELSE Returned(<<>>, ErrNoBody)
    ELSE IF mediaType = "multipart/alternative"
    THEN bodyAmong(contentType, parts)
    ELSE bodyInAlternative(contentType, findTypeInParts("multipart/alternative", parts, 1))

\* FindBody after the Content-Type is parsed and the parts are made.
bodyFound(contentType, mt, pr) ==
    IF mt.err # NoErr THEN Returned(<<>>, mt.err)
    ELSE IF pr.panic THEN SelectorPanic
    ELSE IF pr.err # NoErr THEN Returned(<<>>, pr.err)
    ELSE bodyInParts(contentType, mt.mediaType, pr.parts)

\* Message.FindBody
FindBody(m, contentType) ==
    bodyFound(contentType, ParseMediaType(m.Header.ContentType), Parts(m))

\* Message.Plain and Message.HTML
Plain(m) == FindBody(m, "text/plain")
HTML(m) == FindBody(m, "text/html")

\* Attachments that counts multipart parts in.
RECURSIVE attachmentsFrom_All(_, _, _)
attachmentsFrom_All(parts, i, acc) ==
    IF i > Len(parts) THEN Returned(acc, NoErr)
    ELSE IF parts[i].isNil THEN SelectorPanic
    ELSE attachmentsFrom_All(parts, i + 1, Append(acc, parts[i]))

\* Attachments' loop over the parts, from the i-th on.
RECURSIVE attachmentsFrom(_, _, _)
attachmentsFrom(parts, i, acc) ==
    IF i > Len(parts) THEN Returned(acc, NoErr)
    ELSE IF parts[i].isNil THEN SelectorPanic
    ELSE IF ParseMediaType(parts[i].Header.ContentType).err # NoErr
    THEN Returned(<<>>, ParseMediaType(parts[i].Header.ContentType).err)
    ELSE IF HasPrefixMultipart(ParseMediaType(parts[i].Header.ContentType).mediaType)
    THEN attachmentsFrom(parts, i + 1, acc)
    ELSE attachmentsFrom(parts, i + 1, Append(acc, parts[i]))

\* Attachments after the Content-Type is parsed and the parts are made.
attachmentsOf(mt, pr) ==
    IF mt.err # NoErr THEN Returned(<<>>, mt.err)
    ELSE IF pr.panic THEN SelectorPanic
    ELSE IF pr.err # NoErr THEN Returned(<<>>, pr.err)
    ELSE IF mt.mediaType = "multipart/mixed"
    THEN attachmentsFrom(pr.parts, 1, <<>>)
    ELSE Returned(<<>>, NoErr)

\* Message.Attachments
Attachments(m) ==
    attachmentsOf(ParseMediaType(m.Header.ContentType), Parts(m))

\* ---- the embedding program and the Message

\* A selector that uses the Message up.
AfterCall_Consumed(m) == [m EXCEPT !.RawBody = Content(0, TRUE, <<>>)]

\* The Message after a selector has run on it: no selector assigns to it.
AfterCall(m) == m

InitMsg ==
    /\ data \in SingleData \cup MultipartData \cup EnvelopeData
    /\ email = NoMessage
    /\ ret = NoRet
    /\ cfg = NoServer
    /\ conn = NewConn(0)
    /\ pc = "cmd"
    /\ last = NoCall
    /\ sock = <<>>
    /\ buf = <<>>
    /\ berr = NoErr
    /\ client = IdleClient
    /\ txRcpt = <<>>
    /\ NoReadsNoIDs

\* The rest of the state, which the Message API leaves alone.
connVars == <<conn, cfg, sock, buf, berr, client, txRcpt, rd, dot, idVars>>

\* The command loop makes the Message of the text it has read.
CallNewMessage ==
    /\ pc = "cmd"
    /\ last = NoCall
    /\ \E r \in {NewMessage(data)} :
         /\ email' = r.msg
         /\ last' = Call("NewMessage", "", r.err)
         /\ ret' = NoRet
    /\ UNCHANGED <<pc, data, connVars>>

\* Whether the call being made is the first on the Message ("") or a later
\* one ("again").
Again == IF last.op = "NewMessage" THEN "" ELSE "again"

\* A selector has returned r, or panicked.
Selected(op, r) ==
    /\ pc = "cmd"
    /\ ~email.isNil
    /\ email' = AfterCall(email)
    /\ IF r.panic
       THEN /\ pc' = "panic"
            /\ last' = Call(op, Again, "panic")
            /\ ret' = NoRet
       ELSE /\ pc' = pc
            /\ last' = Call(op, Again, r.err)
            /\ ret' = [val |-> r.val, err |-> r.err]
    /\ UNCHANGED <<data, connVars>>

CallBCC ==
    /\ ~email.isNil
    /\ Selected("BCC", Returned(BCC(email), NoErr))

CallParts ==
    /\ ~email.isNil
    /\ \E r \in {Parts(email)} :
         Selected("Parts", [val |-> r.parts, err |-> r.err, panic |-> r.panic])

CallPlain ==
    /\ ~email.isNil
    /\ \E r \in {Plain(email)} : Selected("Plain", r)

CallHTML ==
    /\ ~email.isNil
    /\ \E r \in {HTML(email)} : Selected("HTML", r)

CallAttachments ==
    /\ ~email.isNil
    /\ \E r \in {Attachments(email)} : Selected("Attachments", r)

NextMsg ==
    \/ CallNewMessage
    \/ CallBCC
    \/ CallParts
    \/ CallPlain
    \/ CallHTML
    \/ CallAttachments

SpecMsg == InitMsg /\ [][NextMsg]_vars

\* ------------------------------------- SpecRead: Reads of the LimitedReader

\* The most bytes one Read of the underlying source returns.
MaxChunk == 2
\* Reads followed once the grace window is over.
MaxAfter == 2

\* io.EOF
ErrEOF == "EOF"

\* What l.R.Read(p) can return: some bytes or none, with no error, with the
\* read deadline's expiry or with io.EOF.
UnderlyingReads ==
    {[n |-> k, err |-> e] : k \in 0..MaxChunk, e \in {NoErr, ErrTimeout, ErrEOF}}

\* Where the LimitedReader l is: under budget; without budget and not yet
\* read from ("exhausted"); inside the grace window (the next Read is still
\* forwarded); after it.
Phase(l) ==
    IF ~l.DidHitLimit
    THEN IF l.N > 0 THEN "under" ELSE "exhausted"
    ELSE IF l.ReadsRemaining > 1 THEN "grace" ELSE "after"

\* The rest of the state, which a Read and a reset leave alone.
notReadVars == <<pc, cfg, sock, buf, berr, client, txRcpt, data, email, ret, dot,
                 idVars>>

\* A Conn with a size cap whose textproto reader is set up.
InitRead ==
    /\ conn = tp(NewConn(SessMaxSize))
    /\ pc = "cmd"
    /\ last = NoCall
    /\ cfg = NoServer
    /\ sock = <<>>
    /\ buf = <<>>
    /\ berr = NoErr
    /\ client = IdleClient
    /\ txRcpt = <<>>
    /\ NoMessageAPI
    /\ NoReadsNoIDs

\* bufio calls Read on the LimitedReader; the underlying source has u.  The
\* error the source has is kept with the call, next to the error returned.
ReaderRead ==
    \E u \in UnderlyingReads :
      \E r \in {LimitedReaderRead(conn.limitedReader, u.n, u.err)} :
        /\ pc = "cmd"
        /\ ~conn.limitedReader.isNil
        /\ conn.limitedReader.ReadsRemaining > -MaxAfter
        /\ conn' = [conn EXCEPT !.limitedReader = r.l]
        /\ last' = Call("Read", u.err, r.err)
        /\ rd' = [rd EXCEPT !.n = r.n, !.err = r.err, !.forwarded = r.forwarded,
                            !.delivered = @ + r.n,
                            !.hits = IF conn.limitedReader.N <= 0 THEN @ + 1 ELSE @]
        /\ UNCHANGED notReadVars

\* Conn.ResetBuffers or Conn.Reset, which returned z, was called on the
\* Conn; kept is the Conn from before as far as it is kept for later.
Rearmed(op, z, kept) ==
    /\ pc = "cmd"
    /\ conn' = z.conn
    /\ pc' = IF z.panic THEN "panic" ELSE pc
    /\ last' = Call(op, "", NoErr)
    /\ rd' = [NoRead EXCEPT !.from = Phase(conn.limitedReader), !.before = kept]
    /\ UNCHANGED <<cfg, sock, buf, berr, client, txRcpt, data, email, ret, dot, idVars>>

\* RSET's ResetBuffers between two Reads.
ReaderResetBuffers ==
    /\ pc = "cmd"
    /\ Rearmed("ResetBuffers", ResetBuffers(conn), rd.before)

\* Reset between two Reads.
ReaderReset ==
    /\ pc = "cmd"
    /\ Rearmed("Reset", Reset(conn), rd.before)

NextRead ==
    \/ ReaderRead
    \/ ReaderResetBuffers
    \/ ReaderReset

SpecRead == InitRead /\ [][NextRead]_vars

\* ----------------------------------------- SpecReset: the resets of a Conn

\* The Conns the resets are called on: with and without a size cap, before
\* and after AUTH, STARTTLS and HELO, with no transaction, with one just
\* started and with one that has a recipient.
SessionConns ==
    {tp([NewConn(m) EXCEPT !.User = u, !.IsTLS = t, !.ID = IF t THEN 2 ELSE 1,
                           !.ClientHostname = h, !.transaction = x.tx,
                           !.FromAddr = x.from, !.ToAddr = x.to]) :
        m \in {0, SessMaxSize}, u \in {NilUser, "u"}, t \in BOOLEAN, h \in {"", "host"},
        x \in {[tx |-> 0, from |-> NilAddr, to |-> <<>>],
               [tx |-> 1, from |-> "a@x", to |-> <<>>],
               [tx |-> 1, from |-> "a@x", to |-> <<"b@x">>]}}

InitReset ==
    /\ conn \in SessionConns
    /\ pc = "cmd"
    /\ last = NoCall
    /\ cfg = NoServer
    /\ sock = <<>>
    /\ buf = <<>>
    /\ berr = NoErr
    /\ client = IdleClient
    /\ txRcpt = <<>>
    /\ NoMessageAPI
    /\ NoReadsNoIDs

\* Conn.ResetBuffers is called; the Conn from before is kept to compare.
ConnResetBuffers ==
    /\ pc = "cmd"
    /\ Rearmed("ResetBuffers", ResetBuffers(conn), conn)

\* Conn.Reset is called; the Conn from before is kept to compare.
ConnReset ==
    /\ pc = "cmd"
    /\ Rearmed("Reset", Reset(conn), conn)

NextReset ==
    \/ ConnResetBuffers
    \/ ConnReset
    \/ CallStartTX
    \/ CallAddInfoHeader

SpecReset == InitReset /\ [][NextReset]_vars

\* ------------------------------- SpecDiscard: ReadData with DiscardBody set

\* The size of the buffers headers and buf of ReadData (4096 bytes) in units
\* of the model's message text.
HeadBuf == 2

\* What the client has written when ReadData is called: message text, the
\* dot line or not yet, and behind the dot line nothing or, from a client
\* that does not wait, the next command.
BodiesSent == 0..MaxBody
Endings == {<<>>, <<DotTok>>, <<DotTok, Cmd("NOOP", "")>>}

\* ReadData that returns the headers as soon as it has them.
RECURSIVE DotReaderLoop_HeadersOnly(_, _, _)
DotReaderLoop_HeadersOnly(d, b, e) ==
    IF b = <<>>
    THEN IF e # NoErr
         THEN [d |-> [d EXCEPT !.step = "failed", !.val = 0],
               buf |-> <<>>, berr |-> NoErr, err |-> e]
         ELSE [d |-> d, buf |-> <<>>, berr |-> NoErr, err |-> NoErr]
    ELSE IF Head(b) = DotTok
    THEN [d |-> [d EXCEPT !.step = "done", !.n = 0, !.headers = d.n, !.val = d.n],
          buf |-> Tail(b), berr |-> e, err |-> NoErr]
    ELSE IF d.n + 1 = HeadBuf
    THEN [d |-> [d EXCEPT !.step = "done", !.n = 0, !.headers = HeadBuf, !.val = HeadBuf],
          buf |-> Tail(b), berr |-> e, err |-> NoErr]
    ELSE DotReaderLoop_HeadersOnly([d EXCEPT !.n = @ + 1], Tail(b), e)

\* The Reads of ReadData's discard branch over what bufio holds (b, and the
\* pending error e), from where ReadData is (d).  The dot reader takes
\* bufio's bytes one by one: a Read returns when its buffer is full (n =
\* HeadBuf, nil), at the dot line (n, io.EOF), or with bufio's error; it
\* never returns (0, nil).  The Read into headers makes headerString of its
\* n bytes unless the error is not io.EOF; the Reads of the loop drop theirs;
\* io.EOF ends the loop (after the Read into headers got it, the loop's
\* first Read gets it again, with 0 bytes), any other error returns "" and
\* the error.  An empty bufio without error means the Read waits for a fill.
RECURSIVE DotReaderLoop(_, _, _)
DotReaderLoop(d, b, e) ==
    IF b = <<>>
    THEN IF e # NoErr
         THEN [d |-> [d EXCEPT !.step = "failed", !.val = 0],
               buf |-> <<>>, berr |-> NoErr, err |-> e]
         ELSE [d |-> d, buf |-> <<>>, berr |-> NoErr, err |-> NoErr]
    ELSE IF Head(b) = DotTok
    THEN [d |-> [d EXCEPT !.step = "done", !.n = 0,
                          !.headers = IF d.step = "headers" THEN d.n ELSE @,
                          !.val = IF d.step = "headers" THEN d.n ELSE d.headers],
          buf |-> Tail(b), berr |-> e, err |-> NoErr]
    ELSE IF d.n + 1 = HeadBuf
    THEN DotReaderLoop([d EXCEPT !.step = "body", !.n = 0,
                           !.headers = IF d.step = "headers" THEN HeadBuf ELSE @],
                       Tail(b), e)
    ELSE DotReaderLoop([d EXCEPT !.n = @ + 1], Tail(b), e)

\* DATA was answered 354 on a Conn with DiscardBody set, with or without a
\* size cap, and ReadData is called.
InitDiscard ==
    /\ \E m \in {0, SessMaxSize} : conn = tp(NewConn(m))
    /\ pc = "data"
    /\ last = NoCall
    /\ cfg = NoServer
    /\ \E k \in BodiesSent, z \in Endings :
          /\ sock = [i \in 1..k |-> ByteTok] \o z
          /\ client = [mode |-> IF z = <<>> THEN "body" ELSE "sent", bodySent |-> k]
          /\ dot = [NoDot EXCEPT !.step = "headers",
                                 !.after = IF z = <<>> THEN <<>> ELSE Tail(z)]
    /\ buf = <<>>
    /\ berr = NoErr
    /\ txRcpt = <<>>
    /\ NoMessageAPI
    /\ rd = NoRead
    /\ counter = 0
    /\ charmux = 0
    /\ gor = [g \in Goroutines |-> "idle"]

\* ReadData is where r says, on the Conn c with s in flight; when it has
\* returned, the command loop has its string and its error.
Discarded(c, r, s) ==
    /\ conn' = c
    /\ dot' = r.d
    /\ buf' = r.buf
    /\ berr' = r.berr
    /\ sock' = s
    /\ pc' = IF r.d.step \in {"done", "failed"} THEN "cmd" ELSE "data"
    /\ last' = IF r.d.step \in {"done", "failed"} THEN Call("ReadData", "", r.err) ELSE last
    /\ UNCHANGED <<cfg, client, txRcpt, data, email, ret, rd, idVars>>

\* Conn.ReadData (DiscardBody on).  One step is one fill of bufio and the
\* Reads of the dot reader that it feeds; u is what the socket returns to it.
ReadDataDiscard ==
    \E u \in SockReads(sock) :
      \E f \in {Fill(tp(conn), u)} :
        /\ pc = "data"
        /\ dot.step \in {"headers", "body"}
        /\ IF buf = <<>> /\ berr = NoErr
           THEN Discarded([tp(conn) EXCEPT !.limitedReader = f.lr],
                          DotReaderLoop(dot, SubSeq(sock, 1, f.taken), f.err),
                          SubSeq(sock, f.taken + 1, Len(sock)))
           ELSE Discarded(tp(conn), DotReaderLoop(dot, buf, berr), sock)

\* The next command read after a ReadData that succeeded: ReadSMTP takes
\* what bufio holds, or what the socket gives.
ReadNext ==
    \E u \in SockReads(sock) :
      \E r \in {ReadSMTP(sock, u)} :
        /\ pc = "cmd"
        /\ dot.step = "done"
        /\ last.op = "ReadData"
        /\ conn' = r.conn
        /\ buf' = r.buf
        /\ berr' = r.berr
        /\ sock' = r.sock
        /\ last' = Call("ReadSMTP", r.verb, r.err)
        /\ UNCHANGED <<pc, cfg, client, txRcpt, data, email, ret, rd, dot, idVars>>

NextDiscard ==
    \/ ReadDataDiscard
    \/ ReadNext

SpecDiscard == InitDiscard /\ [][NextDiscard]_vars

\* ------------------------------------------- SpecID: messageids.go's counter

\* len(_charset), and charIndexes
CharsetLen == 62
charIndexes == CharsetLen - 1

\* The rest of the state, which getCounter leaves alone.
notIDVars == <<conn, pc, last, cfg, sock, buf, berr, client, txRcpt, data, email,
               ret, rd, dot>>

InitID ==
    /\ InitConn
    /\ conn = NewConn(0)

\* An index out of range stops the whole process.
Running == \A g \in Goroutines : gor[g] # "panic"

\* The goroutine g goes from the statement at to the statement to.
Goes(g, at, to) ==
    /\ Running
    /\ gor[g] = at
    /\ gor' = [gor EXCEPT ![g] = to]

\* NewMessageID calls getCounter, which starts with charmux.Lock(): g waits
\* until the lock is free and takes it.
GetCounterLock ==
    \E g \in Goroutines :
        /\ Goes(g, "idle", "inc")
        /\ charmux = 0
        /\ charmux' = g
        /\ UNCHANGED <<counter, notIDVars>>

\* _counter++
GetCounterInc ==
    \E g \in Goroutines :
        /\ Goes(g, "inc", "wrap")
        /\ counter' = counter + 1
        /\ UNCHANGED <<charmux, notIDVars>>

\* if _counter > charIndexes { _counter = 0 }
GetCounterWrap ==
    \E g \in Goroutines :
        /\ Goes(g, "wrap", "unlock")
        /\ counter' = IF counter > charIndexes THEN 0 ELSE counter
        /\ UNCHANGED <<charmux, notIDVars>>

\* charmux.Unlock()
GetCounterUnlock ==
    \E g \in Goroutines :
        /\ Goes(g, "unlock", "lookup")
        /\ charmux' = 0
        /\ UNCHANGED <<counter, notIDVars>>

\* return string(_charset[_counter]): _counter is read as it is now, without
\* the lock; an index past the end of _charset is a run-time panic.
GetCounterLookup ==
    \E g \in Goroutines :
        /\ Goes(g, "lookup", IF counter \in 0..(CharsetLen - 1) THEN "idle" ELSE "panic")
        /\ UNCHANGED <<counter, charmux, notIDVars>>

NextID ==
    \/ GetCounterLock
    \/ GetCounterInc
    \/ GetCounterWrap
    \/ GetCounterUnlock
    \/ GetCounterLookup

SpecID == InitID /\ [][NextID]_vars

\* ------------------------------------------------------------------ claims

\* C1: after any sequence of StartTX, EndTX, Reset and ResetBuffers calls,
\* StartTX returns ErrTransaction exactly when a transaction is active, and
\* then leaves the sender and the transaction id as they were; a successful
\* StartTX records the sender and leaves a nonzero transaction id; EndTX
\* returns ErrTransaction exactly when no transaction is active, and a
\* successful EndTX leaves none active.
C1_OneTransaction ==
    [][ /\ last'.op = "StartTX" =>
             /\ (last'.err = ErrTransaction) <=> (conn.transaction # 0)
             /\ last'.err \in {NoErr, ErrTransaction}
             /\ last'.err = ErrTransaction => conn' = conn
             /\ last'.err = NoErr =>
                  /\ conn'.transaction # 0
                  /\ conn'.FromAddr = last'.arg
        /\ last'.op = "EndTX" =>
             /\ (last'.err = ErrTransaction) <=> (conn.transaction = 0)
             /\ last'.err \in {NoErr, ErrTransaction}
             /\ last'.err = ErrTransaction => conn' = conn
             /\ last'.err = NoErr => conn'.transaction = 0
      ]_vars

\* C1 witness: StartTX was refused on a connection whose transaction was
\* started after an earlier reset cleared one.
C1_Witness ==
    /\ last.op = "StartTX"
    /\ last.err = ErrTransaction
    /\ conn.transaction # 0
    /\ conn.FromAddr # last.arg
    /\ ~conn.limitedReader.isNil

\* The session state a command can act on: everything of the Conn but the
\* reader's bookkeeping.
Session(c) ==
    [ID |-> c.ID, ClientHostname |-> c.ClientHostname, IsTLS |-> c.IsTLS,
     User |-> c.User, FromAddr |-> c.FromAddr, ToAddr |-> c.ToAddr,
     AdditionalHeaders |-> c.AdditionalHeaders, transaction |-> c.transaction]

\* This step is the command loop reading the command verb and answering it.
Handles(verb) ==
    /\ pc = "cmd"
    /\ client.mode = "cmd"
    /\ last'.op = verb

\* C2: while an auth registry is installed and nobody is authenticated, a
\* command whose verb is not in PreAuthVerbsAllowed gets 530 and changes
\* nothing of the session, a command whose verb is in the list is never
\* answered 530 (HELO gets its 250 and the hostname is kept), and in both
\* cases the server goes on waiting for commands unless the verb was QUIT or
\* STARTTLS, or a handler panicked.
C2_PreAuthGate ==
    [][ \A verb \in Verbs :
          (Handles(verb) /\ cfg.Auth /\ conn.User = NilUser) =>
             /\ verb \notin cfg.PreAuth =>
                  /\ last'.codes = <<530>>
                  /\ Session(conn') = Session(conn)
                  /\ pc' = "cmd"
             /\ verb \in cfg.PreAuth =>
                  /\ last'.codes # <<530>>
                  /\ verb \notin {"QUIT", "STARTTLS"} => pc' \in {"cmd", "panic"}
                  /\ verb = "HELO" => /\ last'.codes = <<250>>
                                      /\ conn'.ClientHostname = last'.arg ]_vars

\* HELO was refused under the whitelist [AUTH, FAKE].
C2_Witness ==
    /\ cfg.Auth
    /\ cfg.PreAuth = {"AUTH", "FAKE"}
    /\ conn.User = NilUser
    /\ last.op = "HELO"
    /\ last.codes = <<530>>
    /\ pc = "cmd"

\* HELO was taken under the whitelist [AUTH, HELO].
C2_WitnessAllowed ==
    /\ cfg.PreAuth = {"AUTH", "HELO"}
    /\ conn.User = NilUser
    /\ last.op = "HELO"
    /\ last.codes = <<250>>

\* The message text was read up to the dot line and the handler answered.
DataCompletes ==
    /\ pc = "data"
    /\ pc' = "cmd"

\* C3: a DATA that completes calls the delivery callback at most once, and
\* exactly once when the answer is 250; the Message's Rcpt list is the
\* recipients RCPT TO accepted in this transaction, in order; the answer is
\* 250 with the transaction ended, or 554.
C3_DeliveredOnce ==
    [][ DataCompletes =>
          /\ last'.msg.calls <= 1
          /\ last'.msg.calls = 1 => last'.msg.rcpt = txRcpt
          /\ last'.codes \in {<<250>>, <<554>>}
          /\ last'.codes = <<250>> => /\ last'.msg.calls = 1
                                      /\ conn'.transaction = 0 ]_vars

\* C3 without the clause on the Rcpt list: the list is the Conn's recipient
\* list as it stands when the dot line is read.
C3_DeliveredOnceConnList ==
    [][ DataCompletes =>
          /\ last'.msg.calls <= 1
          /\ last'.msg.calls = 1 => last'.msg.rcpt = conn.ToAddr
          /\ last'.codes \in {<<250>>, <<554>>}
          /\ last'.codes = <<250>> => /\ last'.msg.calls = 1
                                      /\ conn'.transaction = 0 ]_vars

\* A second message of a session was handed over with the first one's
\* recipients still in its Rcpt list.
C3_Witness ==
    /\ last.op = "DATA."
    /\ last.msg.calls = 1
    /\ last.msg.rcpt # txRcpt
    /\ txRcpt # <<>>

\* C4: DATA gets 354 only when a transaction is active and the recipient list
\* is not empty; with an empty recipient list it gets 554, no message text is
\* read, the delivery callback is not called and the server goes on waiting
\* for commands.
C4_DataNeedsRecipients ==
    [][ (Handles("DATA") /\ ~AuthRequired("DATA")) =>
          /\ last'.codes = <<354>> => /\ conn.transaction # 0
                                      /\ Len(conn.ToAddr) > 0
          /\ pc' = "data" => last'.codes = <<354>>
          /\ Len(conn.ToAddr) = 0 =>
               /\ last'.codes = <<554>>
               /\ pc' = "cmd"
               /\ client'.mode = "cmd"
               /\ last'.msg.calls = 0
               /\ Session(conn') = Session(conn) ]_vars

\* DATA was refused inside a transaction that has no recipient yet.
C4_Witness ==
    /\ last.op = "DATA"
    /\ last.codes = <<554>>
    /\ conn.transaction # 0
    /\ conn.ToAddr = <<>>
    /\ pc = "cmd"

\* C5: a well-formed RCPT TO without an active transaction gets 503, and no
\* RCPT TO without a transaction changes the recipient list; inside a
\* transaction a well-formed RCPT TO gets 250 and its address is appended to
\* the end of the list.
C5_RcptNeedsTransaction ==
    [][ (Handles("RCPT") /\ ~AuthRequired("RCPT")) =>
          /\ conn.transaction = 0 =>
               /\ last'.arg \in Addrs => last'.codes = <<503>>
               /\ conn'.ToAddr = conn.ToAddr
               /\ pc' = "cmd"
          /\ (conn.transaction # 0 /\ last'.arg \in Addrs) =>
               /\ last'.codes = <<250>>
               /\ conn'.ToAddr = Append(conn.ToAddr, last'.arg) ]_vars

\* RCPT TO was refused after a completed DATA, whose recipients are still
\* listed.
C5_Witness ==
    /\ last.op = "RCPT"
    /\ last.codes = <<503>>
    /\ conn.transaction = 0
    /\ conn.ToAddr # <<>>

\* C6: a well-formed MAIL FROM inside a transaction gets 503 and changes
\* nothing of the session (sender, recipients and transaction id among it);
\* the server goes on waiting for commands with the transaction still active.
C6_MailInsideTransaction ==
    [][ (Handles("MAIL") /\ ~AuthRequired("MAIL") /\ conn.transaction # 0
            /\ last'.arg \in Addrs) =>
          /\ last'.codes = <<503>>
          /\ Session(conn') = Session(conn)
          /\ pc' = "cmd" ]_vars

\* MAIL FROM with another sender was refused inside a transaction that has a
\* recipient.
C6_Witness ==
    /\ last.op = "MAIL"
    /\ last.codes = <<503>>
    /\ last.arg \in Addrs
    /\ last.arg # conn.FromAddr
    /\ conn.transaction # 0
    /\ conn.ToAddr # <<>>

\* C7: RSET, when the gate lets it through, gets 250, clears sender,
\* recipients, info headers and the transaction, leaves user, TLS flag,
\* session id and hostname as they were, and the server goes on waiting for
\* commands (so that a MAIL FROM is taken).
C7_RsetClearsEnvelope ==
    [][ (Handles("RSET") /\ ~AuthRequired("RSET")) =>
          /\ last'.codes = <<250>>
          /\ pc' = "cmd"
          /\ Session(conn') = [Session(conn) EXCEPT !.FromAddr = NilAddr,
                                  !.ToAddr = <<>>, !.AdditionalHeaders = <<>>,
                                  !.transaction = 0] ]_vars

\* RSET on a server without a size cap: the handler panicked.
C7_Witness ==
    /\ last.op = "RSET"
    /\ pc = "panic"
    /\ cfg.MaxSize = 0

\* The handler of DATA is done with the message text: the dot line was read,
\* or the read failed.
DataEnds ==
    /\ pc = "data"
    /\ pc' # "data"

\* C8: with a size cap, a message whose text is longer than MaxSize is
\* answered 552 and the connection is closed (unless the read ends on another
\* error first).
C8_Oversize552 ==
    [][ (/\ DataEnds
         /\ cfg.MaxSize > 0
         /\ client.bodySent > cfg.MaxSize
         /\ last'.err \in {NoErr, Err552})
            => /\ last'.codes = <<552>>
               /\ pc' = "closed" ]_vars

\* A message longer than MaxSize was answered 250 and handed to the delivery
\* callback.
C8_Witness ==
    /\ cfg.MaxSize > 0
    /\ last.op = "DATA."
    /\ last.codes = <<250>>
    /\ last.msg.calls = 1
    /\ last.msg.size > cfg.MaxSize

\* C9: with a size cap, a message whose text is at most MaxSize long, all of
\* it written by the client, is not refused for its size, whatever was read on
\* the connection before.
C9_UnderCapAccepted ==
    [][ (/\ DataEnds
         /\ cfg.MaxSize > 0
         /\ client.mode = "sent"
         /\ client.bodySent <= cfg.MaxSize)
            => last'.err # Err552 ]_vars

\* A message of one byte, all of it written, was answered 552.
C9_Witness ==
    /\ cfg.MaxSize > 0
    /\ last.op = "DATA."
    /\ client.mode = "sent"
    /\ client.bodySent = 1
    /\ last.codes = <<552>>

\* C10: STARTTLS on a server without a TLS configuration, when the gate lets
\* it through, gets 454; nothing of the session changes (TLS flag, session
\* id, user and envelope among it) and the server goes on waiting for
\* commands.
C10_NoTLS454 ==
    [][ (Handles("STARTTLS") /\ ~AuthRequired("STARTTLS") /\ ~cfg.TLS) =>
          /\ last'.codes = <<454>>
          /\ Session(conn') = Session(conn)
          /\ pc' = "cmd" ]_vars

\* STARTTLS was refused with 454 inside a transaction.
C10_Witness ==
    /\ last.op = "STARTTLS"
    /\ last.codes = <<454>>
    /\ ~cfg.TLS
    /\ conn.transaction # 0
    /\ pc = "cmd"

\* The TLS upgrade was carried out: STARTTLS was answered 220, the handshake
\* succeeded and the command loop goes on over the new socket.
Upgraded ==
    /\ Handles("STARTTLS")
    /\ last'.codes = <<220>>
    /\ pc' = "cmd"

\* C11: after a successful STARTTLS the TLS flag is set, the session id is
\* not the one from before, and user, sender, recipients, info headers and
\* transaction are cleared; and no step of the session (RSET, EHLO, Reset
\* and ResetBuffers among them) clears a TLS flag that is set.
C11_UpgradeResets ==
    [][ /\ Upgraded =>
             /\ conn'.IsTLS
             /\ conn'.ID # conn.ID
             /\ conn'.User = NilUser
             /\ conn'.FromAddr = NilAddr
             /\ conn'.ToAddr = <<>>
             /\ conn'.AdditionalHeaders = <<>>
             /\ conn'.transaction = 0
        /\ conn.IsTLS => conn'.IsTLS ]_vars

\* An authenticated client with an open envelope upgraded to TLS, and its
\* next command was an RSET, answered 250.
C11_Witness ==
    /\ cfg.Auth
    /\ conn.IsTLS
    /\ conn.ID > 1
    /\ conn.User = NilUser
    /\ last.op = "RSET"
    /\ last.codes = <<250>>

\* What a read of the socket whose deadline has passed comes back as: the
\* net.Conn's timeout error, or, when the LimitedReader has dropped that
\* error, bufio's io.ErrNoProgress.
ExpiryErrors == {ErrTimeout, ErrNoProgress}

WellFormedReply(L) ==
    /\ Len(L) >= 1
    /\ \A i \in 1..(Len(L) - 1) : L[i].code = 250 /\ L[i].sep = "-"
    /\ L[Len(L)].sep = " "

\* The extension ext is among the lines of the reply L.
Advertises(L, ext) ==
    \E i \in 1..Len(L) : L[i].text = ext

\* C14: the answer to EHLO is a well-formed reply of several lines, every
\* line but the last "250-...", the last "250 HELP"; STARTTLS is among them
\* exactly when a TLS configuration is installed and the connection is not
\* upgraded yet, and AUTH is not among them without an auth registry.
C14_EHLOReply ==
    (last.op = "EHLO" /\ last.codes = <<250>>) =>
        /\ WellFormedReply(last.lines)
        /\ Len(last.lines) > 1
        /\ last.lines[Len(last.lines)] = [code |-> 250, sep |-> " ", text |-> "HELP"]
        /\ Advertises(last.lines, "STARTTLS") <=> (cfg.TLS /\ ~conn.IsTLS)
        /\ ~cfg.Auth => ~Advertises(last.lines, "AUTH")

\* EHLO after the upgrade to TLS: STARTTLS is no longer advertised.
C14_Witness ==
    /\ last.op = "EHLO"
    /\ last.codes = <<250>>
    /\ cfg.TLS
    /\ conn.IsTLS
    /\ ~Advertises(last.lines, "STARTTLS")
    /\ Advertises(last.lines, "8BITMIME")

\* C15, as stated: an unrecognized verb is answered 500 in every state of
\* the session, nothing of the session changes and the server goes on
\* waiting for commands.
C15_Unknown500 ==
    [][ Handles("XXXX") =>
          /\ last'.codes = <<500>>
          /\ Session(conn') = Session(conn)
          /\ pc' = "cmd" ]_vars

\* C15, amended: an unrecognized verb is answered 500, except that on a
\* server with an auth registry, before authentication, a verb outside
\* PreAuthVerbsAllowed is answered 530 like any other; either way nothing of
\* the session changes and the server goes on waiting for commands.
C15_Unknown500Gated ==
    [][ Handles("XXXX") =>
          /\ last'.codes = IF cfg.Auth /\ conn.User = NilUser /\ "XXXX" \notin cfg.PreAuth
                           THEN <<530>>
                           ELSE <<500>>
          /\ Session(conn') = Session(conn)
          /\ pc' = "cmd" ]_vars

\* An unrecognized verb sent before authentication was answered 530.
C15_Witness ==
    /\ last.op = "XXXX"
    /\ last.codes = <<530>>
    /\ cfg.Auth
    /\ conn.User = NilUser
    /\ pc = "cmd"

\* An unrecognized verb sent inside a transaction, after authentication, was
\* answered 500 and the envelope is still there.
C15_WitnessInside ==
    /\ last.op = "XXXX"
    /\ last.codes = <<500>>
    /\ conn.User # NilUser
    /\ conn.transaction # 0
    /\ conn.ToAddr # <<>>
    /\ pc = "cmd"

\* No To entry of the Message has exactly the address of r.
NotInTo(r) ==
    \A i \in 1..Len(email.To) : email.To[i].Address # r.Address

\* C16: BCC() is the envelope's recipient list without the recipients whose
\* address is exactly the address of some To entry, in the envelope's order:
\* a recipient is in it if and only if no To entry has its address.
C16_BCC ==
    last.op = "BCC" =>
        /\ ret.err = NoErr
        /\ ret.val = SelectSeq(email.Rcpt, NotInTo)
        /\ \A i \in 1..Len(email.Rcpt) :
              (\E j \in 1..Len(ret.val) : ret.val[j] = email.Rcpt[i])
                  <=> NotInTo(email.Rcpt[i])

\* To names a@x; the envelope has A@x and a@x: BCC() is the first alone.
C16_Witness ==
    /\ last.op = "BCC"
    /\ email.To = <<Address("N", "a@x")>>
    /\ email.Rcpt = <<Address("", "A@x"), Address("", "a@x")>>
    /\ ret.val = <<Address("", "A@x")>>

\* The media type of a part of the tree ("" when it has none, or is nil).
TypeOf(p) == IF p.isNil THEN "" ELSE p.Header.ContentType

\* Some part of the list has the type; the first of them.
HasType(ct, parts) == \E i \in 1..Len(parts) : TypeOf(parts[i]) = ct
FirstOfType(ct, parts) ==
    parts[CHOOSE i \in 1..Len(parts) :
            /\ TypeOf(parts[i]) = ct
            /\ \A j \in 1..(i - 1) : TypeOf(parts[j]) # ct]

\* The body FindBody(ct) is to return for a Message of the root type root
\* and the parts pr (of Parts()); found is FALSE when it is to be an error.
BodyToFind(ct, root, pr) ==
    IF pr.err # NoErr \/ root = ""
    THEN [found |-> FALSE]
    ELSE IF root = ct
    THEN [found |-> TRUE, body |-> pr.parts[1].Body]
    ELSE IF root = "multipart/alternative"
    THEN IF HasType(ct, pr.parts)
         THEN [found |-> TRUE, body |-> FirstOfType(ct, pr.parts).Body]
         ELSE [found |-> FALSE]
    ELSE IF /\ HasType("multipart/alternative", pr.parts)
            /\ HasType(ct, FirstOfType("multipart/alternative", pr.parts).Children)
    THEN [found |-> TRUE,
          body |-> FirstOfType(ct, FirstOfType("multipart/alternative",
                                               pr.parts).Children).Body]
    ELSE [found |-> FALSE]

\* The selector of last.op asks for this type.
AskedType == IF last.op = "Plain" THEN "text/plain" ELSE "text/html"

NotMultipart(p) == ~HasPrefixMultipart(TypeOf(p))

C18_WitnessUndecoded ==
    /\ last.op = "Attachments"
    /\ email.Header.ContentType = "text/html"
    /\ Parts(email).err = ErrDecode
    /\ ret = [val |-> <<>>, err |-> ErrDecode]

\* The selectors, and what the selector op returns on the Message m.
Selectors == {"Parts", "Plain", "HTML", "Attachments", "BCC"}
PartsReturned(r) == [val |-> r.parts, err |-> r.err, panic |-> r.panic]
SelectorOn(op, m) ==
    CASE op = "BCC" -> Returned(BCC(m), NoErr)
      [] op = "Parts" -> PartsReturned(Parts(m))
      [] op = "Plain" -> Plain(m)
      [] op = "HTML" -> HTML(m)
      [] op = "Attachments" -> Attachments(m)

RECURSIVE SomeUndecodable(_)
SomeUndecodable(kids) ==
    \E i \in 1..Len(kids) :
        \/ kids[i].cte \in {"quoted-printable", "base64"} /\ ~kids[i].valid
        \/ SomeUndecodable(kids[i].kids)

\* The body of the Message m cannot be transfer-decoded: its own, or that of
\* one of the parts in it.
Undecodable(m) ==
    IF HasPrefixMultipart(m.Header.ContentType)
    THEN SomeUndecodable(m.RawBody.kids)
    ELSE m.Header.cte \in {"quoted-printable", "base64"} /\ ~m.RawBody.valid

\* NewMessage succeeds exactly when the header block parses and there is a
\* From address, whatever the body is.
NewMessageSucceeds ==
    last.op = "NewMessage" =>
        /\ (last.err = NoErr) <=> (data.hdr # "bad" /\ data.from # "")
        /\ (last.err = NoErr) <=> ~email.isNil

\* C20: a body that cannot be transfer-decoded does not keep NewMessage
\* from succeeding when the header block parses and a From address is
\* there, and Parts() and the selectors built on it (Plain, HTML,
\* Attachments) then return an error.
C20_DecodeErrorReported ==
    /\ NewMessageSucceeds
    /\ (/\ last.op \in {"Parts", "Plain", "HTML", "Attachments"}
        /\ Undecodable(email)) => last.err \notin {NoErr, "panic"}

\* Parts() of a multipart message with a part that does not decode returns
\* no error, and a nil part among the parts.
C20_Witness ==
    /\ last.op = "Parts"
    /\ last.err = NoErr
    /\ Undecodable(email)
    /\ \E i \in 1..Len(ret.val) : ret.val[i].isNil

\* A selector panics on the nil part.
C20_WitnessPanic ==
    /\ last.op \in {"Plain", "HTML", "Attachments"}
    /\ last.err = "panic"
    /\ pc = "panic"
    /\ Undecodable(email)

\* The Message of one part that does not decode: Parts() and the selectors
\* built on it return the decoder's error.
C20_SinglePartReported ==
    (/\ last.op \in {"Parts", "Plain", "HTML", "Attachments"}
     /\ ~HasPrefixMultipart(email.Header.ContentType)
     /\ email.Header.ContentType # ""
     /\ Undecodable(email)) => last.err = ErrDecode

\* C26: under every interleaving of NewMessageID calls a goroutine looks
\* the character up while it holds the lock, and with an index inside the
\* alphabet: no lookup reads out of range.
C26_LookupUnderLock ==
    \A g \in Goroutines :
        /\ gor[g] # "panic"
        /\ gor[g] = "lookup" => (charmux = g /\ counter \in 0..(CharsetLen - 1))

\* A goroutine has looked up _charset[62]: it had left the lock, and another
\* one, holding the lock, had incremented the counter past the end and not
\* yet wrapped it.
C26_Witness ==
    \E g, h \in Goroutines :
        /\ gor[g] = "panic"
        /\ gor[h] = "wrap"
        /\ charmux = h
        /\ counter = CharsetLen

\* What does hold: inside the lock the counter is at most len(_charset),
\* and outside of it (no goroutine between Lock and Unlock) it is an index
\* of the alphabet.
C26_InRangeWhenUnlocked ==
    /\ counter \in 0..CharsetLen
    /\ charmux = 0 => counter \in 0..(CharsetLen - 1)

\* C22: once the budget is gone a grace window applies: the first nine
\* Reads issued without budget are forwarded to the underlying source, with
\* an error and whatever bytes the source gives; the tenth and every later
\* one returns zero bytes with the oversize error and does not read from
\* the source.
C22_GraceWindow ==
    (last.op = "Read" /\ rd.hits >= 1) =>
        IF rd.hits < 10
        THEN rd.forwarded /\ rd.err # NoErr
        ELSE ~rd.forwarded /\ rd.n = 0 /\ rd.err = Err552

\* A Read inside the grace window has returned bytes with the oversize
\* error, and the tenth Read without budget has been refused.
C22_Witness ==
    /\ last.op = "Read"
    /\ rd.hits = 10
    /\ ~rd.forwarded
    /\ rd.delivered > SessMaxSize + MaxChunk

\* C23: from the first Read issued without budget until the next re-arm
\* every Read returns the 552 oversize error: never nil, never another.
C23_StickyOversize ==
    (last.op = "Read" /\ rd.hits >= 1) => rd.err = Err552

\* A Read inside the grace window, for which the underlying source returned
\* io.EOF, has returned io.EOF.
C23_Witness ==
    /\ last.op = "Read"
    /\ rd.hits \in 1..9
    /\ rd.forwarded
    /\ rd.err = ErrEOF

\* What does hold: such a Read never returns a nil error, and returns the
\* oversize error unless the underlying source returned one of its own.
C23_NeverNil ==
    (last.op = "Read" /\ rd.hits >= 1) =>
        rd.err \in {Err552, ErrTimeout, ErrEOF}

\* C24: after ResetBuffers, in whatever state the LimitedReader was, the
\* remaining budget is MaxSize, the hit-limit flag is false, the grace
\* counter is 0, and the next Read, whatever the source has, is forwarded to
\* it and returns no oversize error.
C24_Rearm ==
    last.op = "ResetBuffers" =>
        /\ conn.limitedReader.N = conn.MaxSize
        /\ ~conn.limitedReader.DidHitLimit
        /\ conn.limitedReader.ReadsRemaining = 0
        /\ \A u \in UnderlyingReads :
              \E r \in {LimitedReaderRead(conn.limitedReader, u.n, u.err)} :
                  r.forwarded /\ r.err # Err552

\* ResetBuffers has re-armed a LimitedReader whose grace window was over.
C24_Witness ==
    /\ last.op = "ResetBuffers"
    /\ rd.from = "after"
    /\ Phase(conn.limitedReader) = "under"

\* ResetBuffers has re-armed one inside the grace window, and one under
\* budget.
C24_WitnessGrace ==
    last.op = "ResetBuffers" /\ rd.from = "grace"
C24_WitnessUnder ==
    last.op = "ResetBuffers" /\ rd.from = "under"

\* C25: the remaining budget is MaxSize less the bytes Reads have returned
\* since the LimitedReader was made or last re-armed; so every Read takes
\* exactly the bytes it returns off the budget, and one that returns none
\* leaves it as it is.
C25_Budget ==
    conn.limitedReader.N = conn.MaxSize - rd.delivered

\* A Read has returned more bytes than the budget had left: the budget is
\* negative.
C25_Witness ==
    /\ last.op = "Read"
    /\ rd.n = MaxChunk
    /\ rd.delivered = SessMaxSize + 1
    /\ conn.limitedReader.N = -1

\* The fields a reset is to leave alone are those of the Conn from before.
KeepsSession ==
    /\ conn.IsTLS = rd.before.IsTLS
    /\ conn.ID = rd.before.ID
    /\ conn.ClientHostname = rd.before.ClientHostname
    /\ conn.MaxSize = rd.before.MaxSize

\* The envelope is empty.
EnvelopeCleared ==
    /\ conn.FromAddr = NilAddr
    /\ conn.ToAddr = <<>>
    /\ conn.AdditionalHeaders = <<>>
    /\ conn.transaction = 0

C30_WitnessBuffers ==
    /\ last.op = "ResetBuffers"
    /\ rd.before.User = "u"
    /\ rd.before.transaction # 0
    /\ conn.User = "u"
    /\ conn.transaction = 0

\* C28, as stated: in every state, QUIT is answered 221, the connection is
\* closed, the delivery callback is not called, and after a QUIT nothing
\* more of that connection is processed.
C28_QuitTerminates ==
    [][ /\ Handles("QUIT") =>
            /\ last'.codes = <<221>>
            /\ pc' = "closed"
            /\ last'.msg.calls = 0
        /\ ~(last.op = "QUIT" /\ pc = "closed") ]_vars

\* C28, amended: a QUIT that the pre-auth gate lets through is answered 221,
\* the connection is closed, the delivery callback is not called, and nothing
\* more of that connection is processed; on a server with an auth registry,
\* before authentication, a QUIT that is not in PreAuthVerbsAllowed is
\* answered 530, changes nothing and the server goes on waiting for commands.
C28_QuitTerminatesGated ==
    [][ /\ Handles("QUIT") =>
            IF cfg.Auth /\ conn.User = NilUser /\ "QUIT" \notin cfg.PreAuth
            THEN /\ last'.codes = <<530>>
                 /\ pc' = "cmd"
                 /\ Session(conn') = Session(conn)
            ELSE /\ last'.codes = <<221>>
                 /\ pc' = "closed"
                 /\ last'.msg.calls = 0
        /\ ~(last.op = "QUIT" /\ pc = "closed") ]_vars

\* QUIT inside a transaction that has a recipient: the connection is closed
\* and the envelope was never delivered.
C28_Witness ==
    /\ last.op = "QUIT"
    /\ last.codes = <<221>>
    /\ pc = "closed"
    /\ conn.transaction # 0
    /\ conn.ToAddr # <<>>
    /\ last.msg.calls = 0

\* QUIT before authentication on a server whose whitelist does not have it:
\* 530, and the session goes on.
C28_WitnessGated ==
    /\ last.op = "QUIT"
    /\ last.codes = <<530>>
    /\ cfg.Auth
    /\ conn.User = NilUser
    /\ pc = "cmd"

\* C29: with DiscardBody set, when ReadData returns without error the whole
\* message and its dot line have been taken from the stream and nothing
\* behind it, so that what bufio and the socket hold is what the client wrote
\* after the dot line and the next command read is that command; the string
\* returned is the first bytes of the message, as many as the headers buffer
\* holds at most; when ReadData returns an error the string is empty.
C29_DiscardConsumes ==
    /\ (last.op = "ReadData" /\ last.err = NoErr) =>
           /\ dot.step = "done"
           /\ buf \o sock = dot.after
           /\ dot.val = Min(client.bodySent, HeadBuf)
           /\ dot.val <= HeadBuf
    /\ (last.op = "ReadData" /\ last.err # NoErr) =>
           /\ dot.step = "failed"
           /\ dot.val = 0
    /\ (last.op = "ReadSMTP" /\ last.err = NoErr) =>
           last.arg = "NOOP"

\* A message longer than the headers buffer, followed at once by the next
\* command: ReadData returned the first bytes and the next read is that
\* command.
C29_Witness ==
    /\ last.op = "ReadSMTP"
    /\ last.arg = "NOOP"
    /\ last.err = NoErr
    /\ dot.step = "done"
    /\ client.bodySent > HeadBuf
    /\ dot.val = HeadBuf

\* ReadData failed in the loop, after the headers were read.
C29_WitnessError ==
    /\ last.op = "ReadData"
    /\ last.err # NoErr
    /\ dot.headers = HeadBuf
    /\ dot.val = 0

C31_WitnessReset ==
    /\ last.op = "ResetBuffers"
    /\ pc = "cmd"
    /\ conn.AdditionalHeaders = <<>>
    /\ conn.transaction = 0

\* C32: on a server with a size cap, a Message handed to the delivery
\* callback has a text of at most MaxSize bytes.
C32_OversizeNeverDelivered ==
    (cfg.MaxSize > 0 /\ last.msg.calls > 0) => last.msg.size <= cfg.MaxSize

\* A text longer than MaxSize was handed to the delivery callback and
\* answered 250.
C32_Witness ==
    /\ cfg.MaxSize > 0
    /\ last.op = "DATA."
    /\ last.codes = <<250>>
    /\ last.msg.calls = 1
    /\ last.msg.size > cfg.MaxSize

\* C33: a Read issued while the LimitedReader has budget returns the error
\* of the underlying source when that returned one.
C33_ErrorPassedOn ==
    (last.op = "Read" /\ rd.hits = 0 /\ last.arg # NoErr) => rd.err = last.arg

\* A Read issued with budget was forwarded, the source returned io.EOF
\* and no bytes, and the Read returned 0 bytes and a nil error.
C33_Witness ==
    /\ last.op = "Read"
    /\ rd.hits = 0
    /\ rd.forwarded
    /\ last.arg = ErrEOF
    /\ rd.n = 0
    /\ rd.err = NoErr

\* What does hold: a Read issued with budget returns a nil error, whatever
\* the source returned.
C33_AlwaysNil ==
    (last.op = "Read" /\ rd.hits = 0) => rd.err = NoErr

\* C34: ResetBuffers and Reset return, whatever the Conn is like: with or
\* without a size cap, before or after the textproto reader was set up.
C34_ResetsNeverFail ==
    last.op \in {"ResetBuffers", "Reset"} => pc # "panic"

\* Reset on a Conn without a size cap whose textproto reader is set up: no
\* LimitedReader was made, and the call panicked with the envelope cleared.
C34_Witness ==
    /\ last.op = "Reset"
    /\ pc = "panic"
    /\ conn.MaxSize = 0
    /\ conn.textProto
    /\ conn.limitedReader.isNil
    /\ conn.transaction = 0

\* ResetBuffers on a Conn with a size cap before its first read: the
\* LimitedReader is not made yet, and the call panicked.
C34_WitnessBeforeRead ==
    /\ last.op = "ResetBuffers"
    /\ pc = "panic"
    /\ conn.MaxSize > 0
    /\ ~conn.textProto

\* What does hold: the resets return exactly when the LimitedReader exists,
\* that is with a size cap and after tp() was called.
C34_FailWithoutReader ==
    last.op \in {"ResetBuffers", "Reset"} =>
        (pc = "panic" <=> conn.limitedReader.isNil)

\* C35: a MAIL FROM that is accepted starts with no recipient; a MAIL FROM
\* sent right after a message was accepted is accepted and starts with no
\* info header either; and every recipient of a Message handed to the
\* delivery callback was accepted by a RCPT TO of its own transaction.
C35_NoEnvelopeLeak ==
    [][ /\ (Handles("MAIL") /\ last'.codes = <<250>>) =>
              conn'.ToAddr = <<>>
        /\ (Handles("MAIL") /\ last.op = "DATA." /\ last.codes = <<250>>
                            /\ last'.arg # "bad") =>
              /\ last'.codes = <<250>>
              /\ conn'.AdditionalHeaders = <<>>
        /\ (DataCompletes /\ last'.msg.calls = 1) =>
              \A i \in 1..Len(last'.msg.rcpt) :
                 \E j \in 1..Len(txRcpt) : txRcpt[j] = last'.msg.rcpt[i] ]_vars

\* A MAIL FROM after a delivered message was accepted, and the recipient of
\* that message is still on the recipient list.
C35_Witness ==
    /\ last.op = "MAIL"
    /\ last.codes = <<250>>
    /\ conn.transaction # 0
    /\ txRcpt = <<>>
    /\ conn.ToAddr # <<>>

\* A Message was handed over with a recipient that no RCPT TO of its
\* transaction named.
C35_WitnessDelivered ==
    /\ last.op = "DATA."
    /\ last.codes = <<250>>
    /\ last.msg.calls = 1
    /\ \E i \in 1..Len(last.msg.rcpt) :
          \A j \in 1..Len(txRcpt) : txRcpt[j] # last.msg.rcpt[i]

\* What does hold: a MAIL FROM right after an accepted message is accepted
\* without RSET, and the recipient list is emptied only by RSET, by
\* STARTTLS and by the reset that follows a 552.
C35_AcceptedAfterData ==
    [][ /\ (Handles("MAIL") /\ last.op = "DATA." /\ last.codes = <<250>>
                            /\ last'.arg # "bad") =>
              last'.codes = <<250>>
        /\ (conn.ToAddr # <<>> /\ conn'.ToAddr = <<>>) =>
              last'.op \in {"RSET", "STARTTLS", "ReadSMTP", "DATA."} ]_vars

\* Some part of the list, or of the parts below it, is a nil *Part.
RECURSIVE SomeNilPart(_)
SomeNilPart(parts) ==
    \E i \in 1..Len(parts) :
        \/ parts[i].isNil
        \/ ~parts[i].isNil /\ SomeNilPart(parts[i].Children)

\* C36: on a multipart Message with a part that cannot be transfer-decoded
\* Parts() returns an error; the tree Parts() returns without error has no
\* nil part in it; and Plain, HTML and Attachments never panic.
C36_NoNilParts ==
    /\ (/\ last.op = "Parts"
        /\ HasPrefixMultipart(email.Header.ContentType)
        /\ SomeUndecodable(email.RawBody.kids)) => last.err \notin {NoErr, "panic"}
    /\ (last.op = "Parts" /\ last.err = NoErr) => ~SomeNilPart(ret.val)
    /\ last.op \in {"Plain", "HTML", "Attachments"} => last.err # "panic"

\* Attachments() of a multipart Message whose one part does not decode
\* panicked: the part Parts() returned for it is nil.
C36_Witness ==
    /\ last.op = "Attachments"
    /\ last.err = "panic"
    /\ HasPrefixMultipart(email.Header.ContentType)
    /\ SomeUndecodable(email.RawBody.kids)
    /\ SomeNilPart(Parts(email).parts)

\* Parts() of a multipart Message returned a tree without error, the second
\* part of which is nil.
C36_WitnessTree ==
    /\ last.op = "Parts"
    /\ last.err = NoErr
    /\ Len(ret.val) = 2
    /\ ~ret.val[1].isNil
    /\ ret.val[2].isNil

\* What does hold: on a Message all of whose parts decode, the tree has no
\* nil part and no selector panics.
C36_DecodableIsSafe ==
    (~email.isNil /\ ~Undecodable(email)) =>
        /\ last.err # "panic"
        /\ (last.op = "Parts" /\ last.err = NoErr) => ~SomeNilPart(ret.val)

\* C37: on a server with an auth registry and the default
\* PreAuthVerbsAllowed, while the Conn has no authenticated user no
\* transaction is active, no message text is being read and no Message has
\* just been handed to the delivery callback.
C37_NoMailUnauthenticated ==
    (cfg.Auth /\ cfg.PreAuth = DefaultPreAuth /\ conn.User = NilUser) =>
        /\ conn.transaction = 0
        /\ pc # "data"
        /\ last.msg.calls = 0

\* A session that has upgraded to TLS and has no user, whether it had
\* authenticated before the upgrade or not: its MAIL FROM was answered 530.
C37_Witness ==
    /\ cfg.Auth
    /\ cfg.PreAuth = DefaultPreAuth
    /\ conn.IsTLS
    /\ conn.User = NilUser
    /\ last.op = "MAIL"
    /\ last.codes = <<530>>
    /\ conn.transaction = 0

====
